---- MODULE Spec2Model ----
(***************************************************************************)
(* Interview session state machine, session store, flow controller and the *)
(* HTTP routes that drive them (backend/services/interview,                *)
(* backend/routers/interview.py).                                          *)
(*                                                                         *)
(* A session is a record; the store maps session ids to sessions.  The     *)
(* controller mutates the session object it was handed, which is the very  *)
(* object the store holds, so whatever a handler did before it raised      *)
(* stays in the store.                                                     *)
(***************************************************************************)
EXTENDS Integers, Sequences, FiniteSets, TLC

VARIABLES sessions, now, last, pending, resume_sessions, lock, threads

vars == <<sessions, now, last, pending, resume_sessions, lock, threads>>

\* what the session store holds besides the sessions, and who is calling it
store_vars == <<resume_sessions, lock, threads>>

-----------------------------------------------------------------------------
(* Bounds of the model *)

\* handler calls in one behaviour (the clock stops there)
MaxCalls == 3
\* largest max_questions a job is created with
MaxQuestionsBound == 2
\* largest max_followup_per_question a job is created with
MaxFollowupsBound == 2
\* longest topic plan the LLM returns
MaxTopics == 2

-----------------------------------------------------------------------------
(* models/interview.py: InterviewState *)

States ==
  {"NOT_STARTED", "GREETING", "PREPLANNING", "QUESTIONING", "FOLLOW_UP",
   "TRANSITIONING", "CONCLUDING", "COMPLETED", "CANCELLED"}

(* state_machine.py: the transition table a mutant of VALID_TRANSITIONS    *)
(* could hold: GREETING may be entered again from GREETING.                *)
VALID_TRANSITIONS_restart ==
  [s \in States |->
     CASE s = "NOT_STARTED"   -> {"GREETING", "CANCELLED"}
       [] s = "GREETING"      -> {"GREETING", "PREPLANNING", "CANCELLED"}
       [] s = "PREPLANNING"   -> {"QUESTIONING", "CANCELLED"}
       [] s = "QUESTIONING"   -> {"FOLLOW_UP", "TRANSITIONING", "CONCLUDING", "CANCELLED"}
       [] s = "FOLLOW_UP"     -> {"FOLLOW_UP", "TRANSITIONING", "CONCLUDING", "CANCELLED"}
       [] s = "TRANSITIONING" -> {"QUESTIONING", "CONCLUDING", "CANCELLED"}
       [] s = "CONCLUDING"    -> {"COMPLETED"}
       [] s = "COMPLETED"     -> {}
       [] s = "CANCELLED"     -> {}]

VALID_TRANSITIONS ==
  [s \in States |->
     CASE s = "NOT_STARTED"   -> {"GREETING", "CANCELLED"}
       [] s = "GREETING"      -> {"PREPLANNING", "CANCELLED"}
       [] s = "PREPLANNING"   -> {"QUESTIONING", "CANCELLED"}
       [] s = "QUESTIONING"   -> {"FOLLOW_UP", "TRANSITIONING", "CONCLUDING", "CANCELLED"}
       [] s = "FOLLOW_UP"     -> {"FOLLOW_UP", "TRANSITIONING", "CONCLUDING", "CANCELLED"}
       [] s = "TRANSITIONING" -> {"QUESTIONING", "CONCLUDING", "CANCELLED"}
       [] s = "CONCLUDING"    -> {"COMPLETED"}
       [] s = "COMPLETED"     -> {}
       [] s = "CANCELLED"     -> {}]

-----------------------------------------------------------------------------
(* Exceptions.  A handler's outcome is a record [s, exc, ret]: the session *)
(* as the handler left it, the exception that escaped it (NoExc if it      *)
(* returned) and the message it returned.                                  *)

NoExc == [name |-> "None", current_state |-> "-", target_state |-> "-"]

StateMachineError(current_state, target_state) ==
  [name |-> "StateMachineError", current_state |-> current_state,
   target_state |-> target_state]

\* any other Python exception, by its class name
Exc(name) == [name |-> name, current_state |-> "-", target_state |-> "-"]

NoMessage == [role |-> "-", content |-> "-", metadata |-> "-"]

Returned(s, ret) == [s |-> s, exc |-> NoExc, ret |-> ret]

Raised(s, exc) == [s |-> s, exc |-> exc, ret |-> NoMessage]

\* F applied to the value of v, which is evaluated once: a local variable
Let(v, F(_)) == CHOOSE out \in {F(x) : x \in {v}} : TRUE

\* sequencing: r's exception leaves the enclosing function; otherwise the
\* function goes on with r's outcome
Then(r, F(_)) ==
  CHOOSE out \in {IF x.exc.name # "None" THEN x ELSE F(x) : x \in {r}} : TRUE

-----------------------------------------------------------------------------
(* state_machine.py *)

can_transition(current_state, target_state) ==
  target_state \in VALID_TRANSITIONS[current_state]

\* a mutant of transition_state: the state is assigned before the check
transition_state_assign_first(session, target_state) ==
  IF ~can_transition(session.state, target_state)
    THEN Raised([session EXCEPT !.state = target_state],
                StateMachineError(session.state, target_state))
    ELSE Returned([session EXCEPT !.state = target_state], NoMessage)

transition_state(session, target_state) ==
  IF ~can_transition(session.state, target_state)
    THEN Raised(session, StateMachineError(session.state, target_state))
    ELSE Returned([session EXCEPT !.state = target_state], NoMessage)

\* a mutant of is_terminal_state: a cancelled interview does not count as ended
is_terminal_state_completed_only(state) == state = "COMPLETED"

is_terminal_state(state) == state \in {"COMPLETED", "CANCELLED"}

\* a mutant of is_active_state: only the states before and after the
\* interview's normal course are left out
is_active_state_but_ends(state) == state \notin {"NOT_STARTED", "COMPLETED"}

is_active_state(state) ==
  state \in {"GREETING", "PREPLANNING", "QUESTIONING", "FOLLOW_UP",
             "TRANSITIONING", "CONCLUDING"}

-----------------------------------------------------------------------------
(* models/interview.py: ChatMessage, InterviewSession *)

NoMetadata == [question_id |-> "-", skill |-> "-"]

NoQuestion == [id |-> "-", type |-> "-", skill |-> "-", is_coding |-> FALSE]

\* datetime fields: 0 is None, a stamp is the clock value (>= 1) it was taken at
NoTime == 0

\* InterviewSession(resume_data=..., job_data=...): every other field at its default
NewSession(job_data) ==
  [state |-> "NOT_STARTED",
   job_data |-> job_data,
   preplanned_topics |-> <<>>,
   current_topic_index |-> 0,
   current_question |-> NoQuestion,
   questions_asked |-> 0,
   followups_for_current |-> 0,
   messages |-> <<>>,
   evaluations |-> <<>>,
   llm_logs |-> <<>>,
   started_at |-> NoTime,
   ended_at |-> NoTime]

ChatMessage(role, content, metadata) ==
  [role |-> role, content |-> content, metadata |-> metadata]

add_message(session, role, content, metadata) ==
  [session EXCEPT !.messages = Append(@, ChatMessage(role, content, metadata))]

\* a mutant of add_evaluation: the newest evaluation comes first
add_evaluation_newest_first(session, evaluation) ==
  [session EXCEPT !.evaluations = <<evaluation>> \o @]

add_evaluation(session, evaluation) ==
  [session EXCEPT !.evaluations = Append(@, evaluation)]

-----------------------------------------------------------------------------
(* Python values as _log_llm_call receives them: a type tag, the length of *)
(* a str or a list, the text of a short str and, for a session, the        *)
(* session.                                                                *)

NoSession == NewSession([max_questions |-> 0, max_followup_per_question |-> 0,
                         n_primary_skills |-> 0])

PySession(session) == [t |-> "session", n |-> 0, text |-> "-", v |-> session]

PyStr(text, n) == [t |-> "str", n |-> n, text |-> text, v |-> NoSession]

PyList(n) == [t |-> "list", n |-> n, text |-> "-", v |-> NoSession]

PyDict == [t |-> "dict", n |-> 0, text |-> "-", v |-> NoSession]

PyInt == [t |-> "int", n |-> 0, text |-> "-", v |-> NoSession]

\* a logging call that never raises
_log_llm_call_quiet(session, call_type, messages, response, usage, latency_ms) ==
  [exc |-> NoExc, s |-> session.v]

(* flow_controller.py: _log_llm_call(self, session, call_type, messages,   *)
(* response, usage, latency_ms=0).  The body reads, in this order: m.role  *)
(* of every m in messages, usage.get(...), session.llm_logs.  Each of them *)
(* raises AttributeError on a value of the wrong type (a character of a    *)
(* str has no .role, an int has no .get, a str has no .llm_logs).          *)
(* Yields the exception, or the session with the entry appended.           *)
_log_llm_call(session, call_type, messages, response, usage, latency_ms) ==
  IF messages.t \notin {"list", "str"}
    THEN [exc |-> Exc("TypeError"), s |-> session.v]
  ELSE IF messages.t = "str" /\ messages.n > 0
    THEN [exc |-> Exc("AttributeError"), s |-> session.v]
  ELSE IF usage.t # "dict"
    THEN [exc |-> Exc("AttributeError"), s |-> session.v]
  ELSE IF session.t # "session"
    THEN [exc |-> Exc("AttributeError"), s |-> session.v]
  ELSE [exc |-> NoExc,
        s |-> [session.v EXCEPT !.llm_logs = Append(@, call_type.text)]]

-----------------------------------------------------------------------------
(* What the LLM capability answers to one call.  kind:                     *)
(*   "timeout"        generate_with_usage raises (timeout, API error)      *)
(*   "empty"          the empty text                                       *)
(*   "malformed"      text that json.loads rejects                         *)
(*   "valid"          JSON of the expected shape                           *)
(*   "object"         a JSON object where a list is expected               *)
(*   "invalid_items"  a list of objects that fail PrePlanner validation    *)
(*   "non_dict_items" a list whose items are not objects                   *)
(* n is the length of a valid plan; correctness, depth, communication (in  *)
(* percent) and confidence are those of a valid evaluation; is_coding is   *)
(* the is_coding field of a valid question.                                *)

Reply(kind) ==
  [kind |-> kind, n |-> 0, correctness |-> 0, depth |-> 0, communication |-> 0,
   confidence |-> "LOW", is_coding |-> FALSE]

TextLen(reply) == IF reply.kind = "empty" THEN 0 ELSE 1

(* The call sites, all of one shape (lines 286-290, 323-326, 467-470,      *)
(* 543-546, 755-758):                                                      *)
(*   response, usage = await self.llm.generate_with_usage(messages)        *)
(*   latency = int(...)                                                    *)
(*   self._log_llm_call("<type>", messages, response, usage, latency)      *)
(* No try block encloses either line.  The call passes five positional     *)
(* arguments: session is bound to the call-type str, call_type to the      *)
(* message list, messages to the response text, response to the usage      *)
(* dict, usage to the latency int; latency_ms keeps its default.           *)

call_llm(session, call_type, n_messages, reply) ==
  IF reply.kind = "timeout"
    THEN Raised(session, Exc("APITimeoutError"))
    ELSE LET l == _log_llm_call(PyStr(call_type, 1), PyList(n_messages),
                                PyStr("-", TextLen(reply)), PyDict, PyInt, PyInt)
         IN  IF l.exc.name # "None" THEN Raised(session, l.exc)
             ELSE Returned(session, reply)

-----------------------------------------------------------------------------
(* flow_controller.py: the generators *)

\* the skill named by the i-th primary skill or the i-th topic of the plan
Skill(i) == "skill" \o ToString(i)

General == "General"

Topic(serial, skill, difficulty) ==
  [serial |-> serial, skill |-> skill, difficulty |-> difficulty]

Question(id, type, skill, is_coding) ==
  [id |-> id, type |-> type, skill |-> skill, is_coding |-> is_coding]

Min(a, b) == IF a < b THEN a ELSE b

\* primary_skills[:5]
DefaultPlanCap == 5

_generate_greeting(session, reply) ==
  Then(call_llm(session, "greeting", 1, reply), LAMBDA c :
  Returned(c.s, "greeting"))

_generate_preplan(session, reply) ==
  Then(call_llm(session, "preplan", 2, reply), LAMBDA c :
  Let(Min(session.job_data.n_primary_skills, DefaultPlanCap), LAMBDA n_default :
  CASE reply.kind = "valid" ->
         Returned(c.s, [i \in 1..reply.n |-> Topic(i, Skill(i), "MEDIUM")])
    [] reply.kind = "object" -> Returned(c.s, <<>>)
    [] reply.kind = "non_dict_items" -> Raised(c.s, Exc("TypeError"))
    [] OTHER ->
         Returned(c.s, [i \in 1..n_default |-> Topic(i, Skill(i), "EASY")])))

\* the reply's own type and skill fields are taken to be the ones the prompt
\* asks for; its is_coding field is the reply's
_generate_question_for_topic(session, topic, question_type, force_conceptual, reply, coding_draw) ==
  Then(call_llm(session, "question", 2, reply), LAMBDA c :
  IF reply.kind = "valid"
    THEN Returned(c.s, Question("llm", question_type, topic.skill, reply.is_coding))
    ELSE Returned(c.s, Question("uuid4", question_type, topic.skill, FALSE)))

_generate_first_question(session, reply, coding_draw) ==
  IF session.preplanned_topics = <<>>
    THEN Returned(session, Question("uuid4", "main", General, FALSE))
    ELSE _generate_question_for_topic(session, session.preplanned_topics[1], "main",
                                      FALSE, reply, coding_draw)

_generate_next_question(session, reply, coding_draw) ==
  IF session.current_topic_index >= Len(session.preplanned_topics)
    THEN Returned(session, Question("uuid4", "main", General, FALSE))
    ELSE _generate_question_for_topic(
           session, session.preplanned_topics[session.current_topic_index + 1],
           IF session.state = "FOLLOW_UP" THEN "followup" ELSE "main",
           FALSE, reply, coding_draw)

-----------------------------------------------------------------------------
(* flow_controller.py: evaluation and the next-action policy *)

Evaluation(correctness, depth, communication, confidence, notes) ==
  [notes |-> notes, correctness_score |-> correctness, depth_score |-> depth,
   communication_score |-> communication, confidence_level |-> confidence]

\* the fallback evaluation: all scores 0.5 (in percent), confidence LOW
FallbackScore == 50

\* the evaluation_rubric weights in percent, at their defaults
CorrectnessWeight == 50
DepthWeight == 30
CommunicationWeight == 20

\* a mutant of HighScore: the threshold taken as 0.95
HighScore_raised == 95 * 100

\* weighted_score thresholds, in percent of percent
HighScore == 8500
LowScore == 3000

\* len(candidate_response.strip()) < 30
MinResponseLength == 30

\* random.randint(0, 99) < 35
FollowupPercent == 35

Decision(action, reason, next_question) ==
  [action |-> action, reason |-> reason, next_question |-> next_question]

\* a mutant of last_topic_exhausted: the follow-up limit is not consulted
last_topic_exhausted_at_once(session) ==
  session.current_topic_index >= Len(session.preplanned_topics) - 1

\* lines 632-634: on the last topic with the follow-up limit reached
last_topic_exhausted(session) ==
  /\ session.current_topic_index >= Len(session.preplanned_topics) - 1
  /\ session.followups_for_current >= session.job_data.max_followup_per_question

\* a mutant of followup_limit_reached: the limit must be exceeded
followup_limit_reached_beyond(session) ==
  session.followups_for_current > session.job_data.max_followup_per_question

\* line 645
followup_limit_reached(session) ==
  session.followups_for_current >= session.job_data.max_followup_per_question

\* a mutant of response_too_short: the limit written as 3
response_too_short_under_3(candidate_response) ==
  candidate_response.length < MinResponseLength \div 10

\* line 623
response_too_short(candidate_response) ==
  candidate_response.length < MinResponseLength

(* A candidate text is what the code observes of it: whether it contains   *)
(* an explicit end phrase, whether it contains a skip phrase, and the      *)
(* length of its stripped form.                                            *)
_decide_next_action(session, candidate_response, evaluation, reply, followup_draw) ==
  LET max_questions == session.job_data.max_questions
      max_followups == session.job_data.max_followup_per_question
      is_skip_request == candidate_response.skip_phrase
      weighted_score == evaluation.correctness_score * CorrectnessWeight
                        + evaluation.depth_score * DepthWeight
                        + evaluation.communication_score * CommunicationWeight
      response_unclear == evaluation.confidence_level = "LOW"
      can_followup == session.followups_for_current < max_followups
      within_limit == session.questions_asked < max_questions
      response_worth_exploring ==
        weighted_score >= LowScore /\ weighted_score < HighScore
  IN  IF session.questions_asked >= max_questions
        THEN Returned(session, Decision("END_INTERVIEW", "Question limit reached", NoQuestion))
      ELSE IF last_topic_exhausted(session)
        THEN Returned(session, Decision("END_INTERVIEW", "All topics covered", NoQuestion))
      ELSE IF is_skip_request
        THEN Returned(session, Decision("MOVE_TO_NEXT_QUESTION",
                                        "Candidate requested to move on", NoQuestion))
      ELSE IF followup_limit_reached(session)
        THEN Returned(session, Decision("MOVE_TO_NEXT_QUESTION",
                                        "Follow-up limit reached", NoQuestion))
      ELSE IF response_too_short(candidate_response) \/ response_unclear
        THEN Returned(session, Decision("MOVE_TO_NEXT_QUESTION",
                                        "Response too brief to follow up on", NoQuestion))
      ELSE IF weighted_score >= HighScore
        THEN Returned(session, Decision("MOVE_TO_NEXT_QUESTION",
                                        "Skill sufficiently demonstrated", NoQuestion))
      ELSE IF can_followup /\ within_limit /\ response_worth_exploring
              /\ followup_draw < FollowupPercent
        THEN \* preplanned_topics[current_topic_index]
             IF session.current_topic_index >= Len(session.preplanned_topics)
               THEN Raised(session, Exc("IndexError"))
               ELSE Then(_generate_question_for_topic(
                           session,
                           session.preplanned_topics[session.current_topic_index + 1],
                           "followup", TRUE, reply, 0), LAMBDA followup :
                    Returned(followup.s,
                             Decision("ASK_FOLLOWUP", "Exploring response further",
                                      followup.ret)))
      ELSE Returned(session, Decision("MOVE_TO_NEXT_QUESTION", "Moving to next topic",
                                      NoQuestion))

_evaluate_and_decide(session, candidate_response, eval_reply, question_reply, followup_draw) ==
  Then(call_llm(session, "evaluate", 2, eval_reply), LAMBDA c :
  Let(IF eval_reply.kind = "valid"
        THEN Evaluation(eval_reply.correctness, eval_reply.depth,
                        eval_reply.communication, eval_reply.confidence, "-")
        ELSE Evaluation(FallbackScore, FallbackScore, FallbackScore, "LOW",
                        "Fallback evaluation due to parsing error"), LAMBDA evaluation :
  Then(_decide_next_action(c.s, candidate_response, evaluation, question_reply,
                           followup_draw), LAMBDA d :
  Returned(d.s, [action |-> d.ret.action, evaluation |-> evaluation,
                 next_question |-> d.ret.next_question, reason |-> d.ret.reason]))))

-----------------------------------------------------------------------------
(* flow_controller.py: the entry points.  llm holds the reply the LLM      *)
(* gives to each kind of call the handler makes and the random draws; t is *)
(* datetime.utcnow().                                                      *)

LastMessage(session) == session.messages[Len(session.messages)]

\* _save_session_to_file and _save_llm_log_to_file swallow every exception
\* and leave the session as it is
\* _conclude_interview up to its await (lines 738-755)
_conclude_interview_to_llm(session) ==
  IF session.state # "CONCLUDING"
    THEN transition_state(session, "CONCLUDING")
    ELSE Returned(session, NoMessage)

\* _conclude_interview from its await on (lines 756-769)
_conclude_interview_from_llm(session, llm, t) ==
  Then(call_llm(session, "conclusion", 1, llm.conclusion), LAMBDA c :
  Then(transition_state(c.s, "COMPLETED"), LAMBDA r2 :
  Let(add_message([r2.s EXCEPT !.ended_at = t], "interviewer", "conclusion",
                  NoMetadata), LAMBDA s3 :
  Returned(s3, LastMessage(s3)))))

_conclude_interview(session, llm, t) ==
  Then(_conclude_interview_to_llm(session), LAMBDA r1 :
  _conclude_interview_from_llm(r1.s, llm, t))

\* start_interview up to its first await (lines 124-125)
start_interview_to_llm(session, t) ==
  Then(transition_state(session, "GREETING"), LAMBDA r1 :
  Returned([r1.s EXCEPT !.started_at = t], NoMessage))

\* start_interview from its first await on (lines 128-154)
start_interview_from_llm(session, llm) ==
  Then(_generate_greeting(session, llm.greeting), LAMBDA g :
  Then(transition_state(add_message(g.s, "interviewer", "greeting", NoMetadata),
                        "PREPLANNING"), LAMBDA r2 :
  Then(_generate_preplan(r2.s, llm.preplan), LAMBDA p :
  Then(transition_state([p.s EXCEPT !.preplanned_topics = p.ret], "QUESTIONING"),
       LAMBDA r3 :
  Then(_generate_first_question(r3.s, llm.question, llm.coding_draw), LAMBDA q :
  Let(add_message([q.s EXCEPT !.current_question = q.ret, !.questions_asked = 1],
                  "interviewer", "greeting+question",
                  [question_id |-> q.ret.id, skill |-> q.ret.skill]), LAMBDA s5 :
  Returned(s5, LastMessage(s5))))))))

start_interview(session, llm, t) ==
  Then(start_interview_to_llm(session, t), LAMBDA r1 :
  start_interview_from_llm(r1.s, llm))

\* lines 216-251 of process_response: the next question is installed and issued
IssueQuestion(session, next_question, llm, t) ==
  IF next_question # NoQuestion
    THEN Let([session EXCEPT !.current_question = next_question,
                             !.questions_asked = @ + 1], LAMBDA sa :
         IF sa.questions_asked > sa.job_data.max_questions
           THEN _conclude_interview(sa, llm, t)
           ELSE Let(add_message(sa, "interviewer", "question",
                                [question_id |-> next_question.id,
                                 skill |-> next_question.skill]), LAMBDA ma :
                Returned(ma, LastMessage(ma))))
  ELSE IF session.questions_asked >= session.job_data.max_questions
    THEN _conclude_interview(session, llm, t)
  ELSE Then(_generate_next_question(session, llm.question, llm.coding_draw), LAMBDA n :
       Let(add_message([n.s EXCEPT !.current_question = n.ret,
                                   !.questions_asked = @ + 1],
                       "interviewer", "question",
                       [question_id |-> n.ret.id, skill |-> n.ret.skill]), LAMBDA mb :
       Returned(mb, LastMessage(mb))))

\* lines 196-214 of process_response: the action is applied
HandleAction(session, llm_response, llm, t) ==
  IF llm_response.action = "END_INTERVIEW" THEN _conclude_interview(session, llm, t)
  ELSE IF llm_response.action = "ASK_FOLLOWUP"
    THEN Then(transition_state(session, "FOLLOW_UP"), LAMBDA f :
         Let([f.s EXCEPT !.followups_for_current = @ + 1], LAMBDA sf :
         IssueQuestion(sf, llm_response.next_question, llm, t)))
  ELSE Let([session EXCEPT !.current_topic_index = @ + 1,
                           !.followups_for_current = 0], LAMBDA sm :
       IF sm.current_topic_index >= Len(sm.preplanned_topics)
         THEN _conclude_interview(sm, llm, t)
         ELSE Then(transition_state(sm, "TRANSITIONING"), LAMBDA t1 :
              Then(transition_state(t1.s, "QUESTIONING"), LAMBDA t2 :
              IssueQuestion(t2.s, llm_response.next_question, llm, t))))

\* process_response from the await of the evaluation on (lines 190-251)
process_response_from_llm(session, candidate_response, llm, t) ==
  Then(_evaluate_and_decide(session, candidate_response, llm.evaluate, llm.question,
                            llm.followup_draw), LAMBDA e :
  Let(add_evaluation(e.s, e.ret.evaluation), LAMBDA s2 :
  HandleAction(s2, e.ret, llm, t)))

process_response(session, candidate_response, llm, t) ==
  Let(add_message(session, "candidate", candidate_response.id, NoMetadata), LAMBDA s1 :
  IF candidate_response.end_phrase THEN _conclude_interview(s1, llm, t)
  ELSE IF s1.questions_asked >= s1.job_data.max_questions
    THEN _conclude_interview(s1, llm, t)
  ELSE process_response_from_llm(s1, candidate_response, llm, t))

\* process_response up to its first await (lines 170-189, 738-755): the
\* outcome's ret names the await reached, "conclusion" or "evaluate"
process_response_to_llm(session, candidate_response) ==
  Let(add_message(session, "candidate", candidate_response.id, NoMetadata), LAMBDA s1 :
  IF candidate_response.end_phrase \/ s1.questions_asked >= s1.job_data.max_questions
    THEN Then(_conclude_interview_to_llm(s1), LAMBDA r1 : Returned(r1.s, "conclusion"))
    ELSE Returned(s1, "evaluate"))

\* a mutant of end_interview_early: ended_at is stamped before the transition
end_interview_early_stamp_first(session, reason, t) ==
  Then(transition_state([session EXCEPT !.ended_at = t], "CANCELLED"), LAMBDA r1 :
  Let(add_message(r1.s, "interviewer",
                  IF reason THEN "ended with reason" ELSE "ended", NoMetadata),
      LAMBDA s2 :
  Returned(s2, LastMessage(s2))))

end_interview_early(session, reason, t) ==
  Then(transition_state(session, "CANCELLED"), LAMBDA r1 :
  Let(add_message([r1.s EXCEPT !.ended_at = t], "interviewer",
                  IF reason THEN "ended with reason" ELSE "ended", NoMetadata),
      LAMBDA s2 :
  Returned(s2, LastMessage(s2))))

-----------------------------------------------------------------------------
(* session_manager.py: the store.  One store instance; sessions maps the   *)
(* ids it holds to the session objects.                                    *)

SessionIds == {"s1"}

create_session(store, id, job_data) ==
  [i \in DOMAIN store \cup {id} |-> IF i = id THEN NewSession(job_data) ELSE store[i]]

\* get_session: None is "the id is not in the store"
has_session(store, id) == id \in DOMAIN store

update_session(store, id, session) ==
  IF id \in DOMAIN store THEN [store EXCEPT ![id] = session] ELSE store

-----------------------------------------------------------------------------
(* session_manager.py as its callers on several threads see it.  A session *)
(* is here what the store reads of it: session_id, state, created_at.      *)
(* Times are in seconds.  Each method body runs inside "with self._lock";  *)
(* the body's test or comprehension (what it saw) and its assignment or    *)
(* del are separate steps of the interpreter, so each *_locked operator    *)
(* takes the dicts as the test saw them and the dicts as they are when the *)
(* write happens.                                                          *)

\* threads calling the store
MaxThreads == 2
\* calls of the store in one behaviour
MaxStoreCalls == 3

Threads == 1..MaxThreads

SecondsPerMinute == 60

StoredSession(session_id, state, created_at) ==
  [session_id |-> session_id, state |-> state, created_at |-> created_at]

\* None, as get_session and get_resume return it
NoStored == StoredSession("-", "-", NoTime)

NoDict == [i \in {} |-> NoStored]

Remove(dict, keys) == [i \in DOMAIN dict \ keys |-> dict[i]]

\* the outcome of a method: both dicts, the value returned, the exception raised
StoreResult(s, r, ret, exc) == [s |-> s, r |-> r, ret |-> ret, exc |-> exc]

\* self._sessions[session.session_id] = session
store_session(store, session) ==
  [i \in DOMAIN store \cup {session.session_id} |->
     IF i = session.session_id THEN session ELSE store[i]]

get_session(store, session_id) ==
  IF session_id \in DOMAIN store THEN store[session_id] ELSE NoStored

\* a mutant of update_session_locked: the session is stored whether or not
\* its id is known
update_session_locked_upsert(seen, store, session) ==
  store_session(store, session)

update_session_locked(seen, store, session) ==
  IF session.session_id \in DOMAIN seen THEN store_session(store, session) ELSE store

\* del of a key that is gone raises KeyError
delete_session_locked(seen, store, resumes, session_id) ==
  IF session_id \in DOMAIN seen
    THEN IF session_id \in DOMAIN store
           THEN StoreResult(Remove(store, {session_id}), resumes, TRUE, NoExc)
           ELSE StoreResult(store, resumes, FALSE, Exc("KeyError"))
    ELSE StoreResult(store, resumes, FALSE, NoExc)

\* (now - created_at).total_seconds() > max_age_minutes * 60
older_than(created_at, t, max_age_minutes) ==
  t - created_at > max_age_minutes * SecondsPerMinute

\* a mutant of expired_sessions: the state of the session is not looked at
expired_sessions_any_state(seen, t, max_age_minutes) ==
  {sid \in DOMAIN seen : older_than(seen[sid].created_at, t, max_age_minutes)}

expired_sessions(seen, t, max_age_minutes) ==
  {sid \in DOMAIN seen : /\ older_than(seen[sid].created_at, t, max_age_minutes)
                         /\ seen[sid].state \in {"COMPLETED", "CANCELLED"}}

expired_resumes(seen, t, max_age_minutes) ==
  {sid \in DOMAIN seen : older_than(seen[sid].created_at, t, max_age_minutes)}

\* t is datetime.utcnow() as read before the lock was taken
cleanup_expired_locked(seen, seen_resumes, store, resumes, t, max_age_minutes) ==
  Let(expired_sessions(seen, t, max_age_minutes), LAMBDA es :
  Let(expired_resumes(seen_resumes, t, max_age_minutes), LAMBDA er :
  IF es \subseteq DOMAIN store /\ er \subseteq DOMAIN resumes
    THEN StoreResult(Remove(store, es), Remove(resumes, er),
                     Cardinality(es) + Cardinality(er), NoExc)
    ELSE StoreResult(store, resumes, 0, Exc("KeyError"))))

\* threading.Lock: 0 is unlocked, otherwise the thread that holds it
Unlocked == 0

\* a mutant of lock_free: acquire never waits
lock_free_always(holder) == TRUE

lock_free(holder) == holder = Unlocked

Dicts(s, r) == [s |-> s, r |-> r]

\* a thread between two calls of the store; held is the session object its
\* last create_session or get_session returned, returned the id its last call
\* deleted
IdleThread ==
  [pc |-> "idle", op |-> "-",
   arg |-> [session_id |-> "-", session |-> NoStored, max_age_minutes |-> 0, t |-> NoTime],
   seen |-> Dicts(NoDict, NoDict), held |-> NoStored, returned |-> "-"]

\* nobody is calling the store and no resume is staged
StoreIdle ==
  /\ resume_sessions = NoDict
  /\ lock = Unlocked
  /\ threads = [t \in Threads |-> IdleThread]

-----------------------------------------------------------------------------
(* The inputs the environment chooses *)

\* candidate texts, by what the code observes of them
Texts ==
  {[id |-> "please end interview", end_phrase |-> TRUE, skip_phrase |-> FALSE, length |-> 20],
   [id |-> "skip", end_phrase |-> FALSE, skip_phrase |-> TRUE, length |-> 4],
   [id |-> "don't know", end_phrase |-> FALSE, skip_phrase |-> FALSE, length |-> 10],
   [id |-> "long answer", end_phrase |-> FALSE, skip_phrase |-> FALSE, length |-> 40]}

Jobs ==
  [max_questions : 0..MaxQuestionsBound,
   max_followup_per_question : 0..MaxFollowupsBound,
   n_primary_skills : {0, MaxTopics}]

TextReplies == {Reply("timeout"), Reply("empty"), Reply("valid")}

PreplanReplies ==
  {Reply(k) : k \in {"timeout", "malformed", "object", "invalid_items", "non_dict_items"}}
  \cup {[Reply("valid") EXCEPT !.n = n] : n \in 0..MaxTopics}

QuestionReplies ==
  {Reply("timeout"), Reply("malformed")}
  \cup {[Reply("valid") EXCEPT !.is_coding = b] : b \in BOOLEAN}

ValidEvaluation(score, confidence) ==
  [Reply("valid") EXCEPT !.correctness = score, !.depth = score,
                         !.communication = score, !.confidence = confidence]

EvaluationReplies ==
  {Reply("timeout"), Reply("malformed"), ValidEvaluation(FallbackScore, "LOW"),
   ValidEvaluation(FallbackScore, "HIGH"), ValidEvaluation(100, "HIGH")}

\* random.randint(0, 99) of the follow-up decision: one value on each side of
\* the threshold
Draws == {0, 99}

\* random.randint(0, 99) of the coding-question decision, which only selects
\* the prompt's format section: the question's is_coding is the reply's
CodingDraws == {0}

\* the replies start_interview consumes
StartLLMs ==
  [greeting : TextReplies, preplan : PreplanReplies, question : QuestionReplies,
   evaluate : {Reply("valid")}, conclusion : {Reply("valid")},
   followup_draw : {0}, coding_draw : CodingDraws]

\* the replies process_response consumes; its one question call, the
\* follow-up's or the next question's, gets the reply question
RespondLLMs ==
  [greeting : {Reply("valid")}, preplan : {Reply("valid")},
   question : QuestionReplies,
   evaluate : EvaluationReplies, conclusion : TextReplies,
   followup_draw : Draws, coding_draw : CodingDraws]

-----------------------------------------------------------------------------
(* routers/interview.py, routers/report.py: one action per route.  last    *)
(* records the latest call: the route, the HTTP status, the exception that *)
(* escaped the controller, the session as it was before the call, the      *)
(* message returned and whether the LLM capability failed in a call.       *)

Call(op, id, status, exc, pre, ret, target, llm_failed) ==
  [op |-> op, id |-> id, status |-> status, exc |-> exc, pre |-> pre, ret |-> ret,
   target |-> target, llm_failed |-> llm_failed]

NoCall == Call("none", "-", 0, NoExc, NoSession, NoMessage, "-", FALSE)

\* one of the replies the handler can draw is a failure of the capability
Fails(llm) ==
  "timeout" \in {llm.greeting.kind, llm.preplan.kind, llm.question.kind,
                 llm.evaluate.kind, llm.conclusion.kind}

\* the HTTP status a controller outcome becomes: an exception that is not an
\* HTTPException leaves the route as a 500
StatusOf(r) == IF r.exc.name = "None" THEN 200 ELSE 500

Rejected(op, id, status) ==
  /\ last' = Call(op, id, status, NoExc,
                  IF has_session(sessions, id) THEN sessions[id] ELSE NoSession,
                  NoMessage, "-", FALSE)
  /\ UNCHANGED <<sessions, now, pending, store_vars>>

\* the controller ran on the stored object: what it did to it stays, also when
\* it raised and update_session was not reached
Handled(op, id, r, llm_failed) ==
  /\ sessions' = IF r.exc.name = "None"
                   THEN update_session([sessions EXCEPT ![id] = r.s], id, r.s)
                   ELSE [sessions EXCEPT ![id] = r.s]
  /\ now' = now + 1
  /\ last' = Call(op, id, StatusOf(r), r.exc, sessions[id], r.ret, "-", llm_failed)
  /\ UNCHANGED <<pending, store_vars>>

create_interview(id, job_data) ==
  /\ ~has_session(sessions, id)
  /\ sessions' = create_session(sessions, id, job_data)
  /\ last' = Call("create", id, 200, NoExc, NoSession, NoMessage, "-", FALSE)
  /\ UNCHANGED <<now, pending, store_vars>>

start_interview_route(id, llm) ==
  /\ now < MaxCalls
  /\ IF ~has_session(sessions, id) THEN Rejected("start", id, 404)
     ELSE IF sessions[id].state # "NOT_STARTED" THEN Rejected("start", id, 400)
     ELSE Handled("start", id, start_interview(sessions[id], llm, now + 1), Fails(llm))

submit_response(id, response, llm) ==
  /\ now < MaxCalls
  /\ IF ~has_session(sessions, id) THEN Rejected("respond", id, 404)
     ELSE IF ~is_active_state(sessions[id].state) THEN Rejected("respond", id, 400)
     ELSE Handled("respond", id,
                  process_response(sessions[id], response, llm, now + 1), Fails(llm))

end_interview(id, reason) ==
  /\ now < MaxCalls
  /\ IF ~has_session(sessions, id) THEN Rejected("end", id, 404)
     ELSE IF is_terminal_state(sessions[id].state) THEN Rejected("end", id, 400)
     ELSE Handled("end", id, end_interview_early(sessions[id], reason, now + 1), FALSE)

get_status(id) ==
  IF ~has_session(sessions, id) THEN Rejected("status", id, 404)
  ELSE Rejected("status", id, 200)

get_history(id) ==
  IF ~has_session(sessions, id) THEN Rejected("history", id, 404)
  ELSE Rejected("history", id, 200)

get_report(id) ==
  IF ~has_session(sessions, id) THEN Rejected("report", id, 404)
  ELSE IF sessions[id].state \notin {"COMPLETED", "CANCELLED"} THEN Rejected("report", id, 400)
  ELSE IF sessions[id].evaluations = <<>> THEN Rejected("report", id, 400)
  ELSE Rejected("report", id, 200)

Init ==
  /\ sessions = [i \in {} |-> NoSession]
  /\ now = 0
  /\ last = NoCall
  /\ pending = <<>>
  /\ StoreIdle

Next ==
  \/ \E id \in SessionIds, job_data \in Jobs : create_interview(id, job_data)
  \/ \E id \in SessionIds, llm \in StartLLMs : start_interview_route(id, llm)
  \/ \E id \in SessionIds, response \in Texts, llm \in RespondLLMs :
       submit_response(id, response, llm)
  \/ \E id \in SessionIds, reason \in BOOLEAN : end_interview(id, reason)
  \/ \E id \in SessionIds : get_status(id)
  \/ \E id \in SessionIds : get_history(id)
  \/ \E id \in SessionIds : get_report(id)

Spec == Init /\ [][Next]_vars

-----------------------------------------------------------------------------
(* The controller and the state machine called directly, as their unit     *)
(* tests and any caller other than the routes can call them: on a session  *)
(* in any state, with no gate in front.  A behaviour is one call on one    *)
(* session.                                                                *)

PlanOf(k) == [i \in 1..k |-> Topic(i, Skill(i), "MEDIUM")]

DirectJobs ==
  [max_questions : 1..MaxQuestionsBound,
   max_followup_per_question : {MaxFollowupsBound},
   n_primary_skills : {MaxTopics}]

\* a session that left NOT_STARTED has been stamped and greeted at time 1; one
\* that ended was stamped at time 1 too
SessionIn(state, job_data, k, idx, questions_asked, followups) ==
  [state |-> state,
   job_data |-> job_data,
   preplanned_topics |-> PlanOf(k),
   current_topic_index |-> idx,
   current_question |-> IF questions_asked > 0
                          THEN Question("llm", "main", General, FALSE)
                          ELSE NoQuestion,
   questions_asked |-> questions_asked,
   followups_for_current |-> followups,
   messages |-> <<ChatMessage("interviewer", "greeting", NoMetadata)>>,
   evaluations |-> <<>>,
   llm_logs |-> <<>>,
   started_at |-> 1,
   ended_at |-> IF is_terminal_state(state) THEN 1 ELSE NoTime]

DirectSessions ==
  {NewSession(j) : j \in DirectJobs}
  \cup {SessionIn(st, j, k, idx, q, f) :
          st \in States \ {"NOT_STARTED"}, j \in DirectJobs, k \in 0..MaxTopics,
          idx \in 0..MaxTopics, q \in 0..MaxQuestionsBound,
          f \in 0..MaxFollowupsBound}

Direct(op, id, r, target, llm_failed) ==
  /\ last = NoCall
  /\ sessions' = [sessions EXCEPT ![id] = r.s]
  /\ now' = now + 1
  /\ last' = Call(op, id, StatusOf(r), r.exc, sessions[id], r.ret, target, llm_failed)
  /\ UNCHANGED <<pending, store_vars>>

call_transition_state(id, target_state) ==
  Direct("transition_state", id, transition_state(sessions[id], target_state),
         target_state, FALSE)

call_start_interview(id, llm) ==
  Direct("start", id, start_interview(sessions[id], llm, now + 1), "-", Fails(llm))

\* the call's record keeps the kind of reply the evaluation request got
call_process_response(id, response, llm) ==
  Direct("respond", id, process_response(sessions[id], response, llm, now + 1),
         llm.evaluate.kind, Fails(llm))

call_end_interview_early(id, reason) ==
  Direct("end", id, end_interview_early(sessions[id], reason, now + 1), "-", FALSE)

\* _generate_preplan called on the session, the LLM returning reply
call_generate_preplan(id, reply) ==
  Direct("_generate_preplan", id, _generate_preplan(sessions[id], reply), reply.kind,
         reply.kind = "timeout")

\* datetime.isoformat(): the stamp as text
isoformat(t) == ToString(t)

\* _serialize_value: None stays None, an enum gives its value, dicts and lists
\* are serialized item by item in their order, str/int/float/bool stay as they
\* are; the model's values are of these kinds only, a list stays a list of the
\* same length and order
_serialize_value(value) ==
  IF DOMAIN value = 1..Len(value) THEN [i \in 1..Len(value) |-> value[i]] ELSE value

\* the session_data dict _save_session_to_file builds: current_topic_index,
\* followups_for_current, current_question and llm_logs are not among its keys
session_data(session_id, session, t) ==
  [session_id |-> session_id,
   timestamp |-> isoformat(t),
   job |-> session.job_data,
   state |-> session.state,
   started_at |-> IF session.started_at # NoTime THEN isoformat(session.started_at)
                                                 ELSE "None",
   ended_at |-> IF session.ended_at # NoTime THEN isoformat(session.ended_at) ELSE "None",
   duration_seconds |-> IF session.started_at # NoTime /\ session.ended_at # NoTime
                          THEN ToString(session.ended_at - session.started_at)
                          ELSE "None",
   questions_asked |-> session.questions_asked,
   preplanned_topics |-> _serialize_value(session.preplanned_topics),
   messages |-> [i \in 1..Len(session.messages) |->
                   [role |-> session.messages[i].role,
                    content |-> session.messages[i].content,
                    metadata |-> session.messages[i].metadata]],
   evaluations |-> _serialize_value(session.evaluations)]

\* nothing was written: the try block failed and the except clause swallowed it
NoFile == [session_id |-> "-"]

\* _save_session_to_file: the dict is dumped to the file unless creating the
\* directory or opening the file fails; it returns None and never raises, and
\* the session is left as it is
_save_session_to_file(session_id, session, t, io_ok) ==
  [s |-> session, exc |-> NoExc,
   ret |-> IF io_ok THEN session_data(session_id, session, t) ELSE NoFile]

\* _save_session_to_file called on the session; the call's record keeps what
\* went to the file
call_save_session_to_file(id, io_ok) ==
  Direct("_save_session_to_file", id, _save_session_to_file(id, sessions[id], now + 1, io_ok), IF io_ok THEN "written" ELSE "failed", FALSE)

InitDirect ==
  /\ sessions \in [SessionIds -> {x \in DirectSessions :
                                    x.current_topic_index <= Len(x.preplanned_topics)}]
  /\ now = 1
  /\ last = NoCall
  /\ pending = <<>>
  /\ StoreIdle

NextDirect ==
  \/ \E id \in SessionIds, target_state \in States :
       call_transition_state(id, target_state)
  \/ \E id \in SessionIds, llm \in StartLLMs : call_start_interview(id, llm)
  \/ \E id \in SessionIds, response \in Texts, llm \in RespondLLMs :
       call_process_response(id, response, llm)
  \/ \E id \in SessionIds, reason \in BOOLEAN : call_end_interview_early(id, reason)
  \/ \E id \in SessionIds, reply \in PreplanReplies : call_generate_preplan(id, reply)
  \/ \E id \in SessionIds, io_ok \in BOOLEAN : call_save_session_to_file(id, io_ok)

SpecDirect == InitDirect /\ [][NextDirect]_vars

-----------------------------------------------------------------------------
(* _decide_next_action called directly, on a session in QUESTIONING or     *)
(* FOLLOW_UP with any counters, with any candidate text and evaluation.    *)
(* last.target holds the inputs of the call, last.ret the decision.        *)

\* scores in percent: one in each band of weighted_score and the two limits
Scores == {0, 30, 50, 85, 100}

Confidences == {"LOW", "MEDIUM", "HIGH"}

DecideEvaluations ==
  {Evaluation(score, score, score, c, "-") : score \in Scores, c \in Confidences}

DecideJobs ==
  [max_questions : 1..MaxQuestionsBound,
   max_followup_per_question : 0..MaxFollowupsBound,
   n_primary_skills : {MaxTopics}]

DecideSessions ==
  {SessionIn(st, j, k, idx, q, f) :
     st \in {"QUESTIONING", "FOLLOW_UP"}, j \in DecideJobs, k \in 0..MaxTopics,
     idx \in 0..MaxTopics, q \in 0..MaxQuestionsBound, f \in 0..MaxFollowupsBound}

call_decide_next_action(id, response, evaluation, reply, draw) ==
  Direct("decide", id,
         _decide_next_action(sessions[id], response, evaluation, reply, draw),
         [response |-> response, evaluation |-> evaluation, draw |-> draw],
         reply.kind = "timeout")

InitDecide ==
  /\ sessions \in [SessionIds ->
                     {x \in DecideSessions :
                        /\ x.current_topic_index <= Len(x.preplanned_topics)
                        /\ x.followups_for_current
                             <= x.job_data.max_followup_per_question}]
  /\ now = 1
  /\ last = NoCall
  /\ pending = <<>>
  /\ StoreIdle

NextDecide ==
  \E id \in SessionIds, response \in Texts, evaluation \in DecideEvaluations,
     reply \in {Reply("timeout"), Reply("valid")}, draw \in Draws :
    call_decide_next_action(id, response, evaluation, reply, draw)

SpecDecide == InitDecide /\ [][NextDecide]_vars

-----------------------------------------------------------------------------
(* state_machine.py called directly, any number of times: the three        *)
(* predicates take the state of a session (an enum member, which they      *)
(* cannot change) and have no assignment in their bodies; transition_state *)
(* moves the session between the calls.  last.ret holds the boolean        *)
(* returned, last.target the second argument of can_transition.            *)

Query(op, id, result, target) ==
  /\ now <= MaxCalls
  /\ now' = now + 1
  /\ last' = Call(op, id, 200, NoExc, sessions[id], result, target, FALSE)
  /\ UNCHANGED <<sessions, pending, store_vars>>

query_is_terminal_state(id) ==
  Query("is_terminal_state", id, is_terminal_state(sessions[id].state), "-")

query_is_active_state(id) ==
  Query("is_active_state", id, is_active_state(sessions[id].state), "-")

query_can_transition(id, target_state) ==
  Query("can_transition", id, can_transition(sessions[id].state, target_state),
        target_state)

move_transition_state(id, target_state) ==
  /\ now <= MaxCalls
  /\ LET r == transition_state(sessions[id], target_state) IN
       /\ sessions' = [sessions EXCEPT ![id] = r.s]
       /\ now' = now + 1
       /\ last' = Call("transition_state", id, StatusOf(r), r.exc, sessions[id],
                       r.ret, target_state, FALSE)
       /\ UNCHANGED <<pending, store_vars>>

\* one session in each of the 9 states
InitQuery ==
  /\ sessions \in [SessionIds ->
                     {NewSession(j) : j \in DirectJobs}
                     \cup {SessionIn(st, j, MaxTopics, 0, 1, 0) :
                             st \in States \ {"NOT_STARTED"}, j \in DirectJobs}]
  /\ now = 1
  /\ last = NoCall
  /\ pending = <<>>
  /\ StoreIdle

NextQuery ==
  \/ \E id \in SessionIds : query_is_terminal_state(id)
  \/ \E id \in SessionIds : query_is_active_state(id)
  \/ \E id \in SessionIds, target_state \in States :
       query_can_transition(id, target_state)
  \/ \E id \in SessionIds, target_state \in States :
       move_transition_state(id, target_state)

SpecQuery == InitQuery /\ [][NextQuery]_vars

-----------------------------------------------------------------------------
(* Everything that writes the three sequences of a session, called one     *)
(* after the other on one session: the controller's operations, and the    *)
(* methods they append with, add_message, add_evaluation and               *)
(* _log_llm_call, the last with the arguments its signature declares.      *)

Applied(op, id, r, llm_failed) ==
  /\ now <= MaxCalls
  /\ sessions' = [sessions EXCEPT ![id] = r.s]
  /\ now' = now + 1
  /\ last' = Call(op, id, StatusOf(r), r.exc, sessions[id], r.ret, "-", llm_failed)
  /\ UNCHANGED <<pending, store_vars>>

apply_add_message(id, role, content) ==
  LET s1 == add_message(sessions[id], role, content, NoMetadata)
  IN  Applied("add_message", id, Returned(s1, LastMessage(s1)), FALSE)

apply_add_evaluation(id, evaluation) ==
  Applied("add_evaluation", id,
          Returned(add_evaluation(sessions[id], evaluation), NoMessage), FALSE)

apply_log_llm_call(id, call_type) ==
  LET l == _log_llm_call(PySession(sessions[id]), PyStr(call_type, 1), PyList(1),
                         PyStr("-", 1), PyDict, PyInt)
  IN  Applied("_log_llm_call", id,
              IF l.exc = NoExc THEN Returned(l.s, NoMessage) ELSE Raised(l.s, l.exc),
              FALSE)

apply_start_interview(id, llm) ==
  Applied("start", id, start_interview(sessions[id], llm, now + 1), Fails(llm))

apply_process_response(id, response, llm) ==
  Applied("respond", id, process_response(sessions[id], response, llm, now + 1),
          Fails(llm))

apply_end_interview_early(id, reason) ==
  Applied("end", id, end_interview_early(sessions[id], reason, now + 1), FALSE)

\* a new session, or one in the middle of its questions
InitAppend ==
  /\ sessions \in [SessionIds ->
                     {NewSession(j) : j \in DirectJobs}
                     \cup {SessionIn(st, j, MaxTopics, 0, 1, 0) :
                             st \in {"QUESTIONING", "FOLLOW_UP"}, j \in DirectJobs}]
  /\ now = 1
  /\ last = NoCall
  /\ pending = <<>>
  /\ StoreIdle

\* the replies to the first LLM call of start_interview and of
\* process_response
AppendLLMs ==
  [greeting : TextReplies, preplan : {Reply("valid")}, question : {Reply("valid")},
   evaluate : {Reply("timeout"), ValidEvaluation(FallbackScore, "HIGH")},
   conclusion : {Reply("valid")}, followup_draw : {0}, coding_draw : CodingDraws]

NextAppend ==
  \/ \E id \in SessionIds, role \in {"interviewer", "candidate"} :
       apply_add_message(id, role, "text")
  \/ \E id \in SessionIds, c \in Confidences :
       apply_add_evaluation(id, Evaluation(FallbackScore, FallbackScore, FallbackScore, c, "-"))
  \/ \E id \in SessionIds, call_type \in {"greeting", "evaluate"} :
       apply_log_llm_call(id, call_type)
  \/ \E id \in SessionIds, llm \in AppendLLMs : apply_start_interview(id, llm)
  \/ \E id \in SessionIds, response \in Texts, llm \in AppendLLMs :
       apply_process_response(id, response, llm)
  \/ \E id \in SessionIds, reason \in BOOLEAN : apply_end_interview_early(id, reason)

SpecAppend == InitAppend /\ [][NextAppend]_vars

-----------------------------------------------------------------------------
(* The session store called from several threads.  A call is made          *)
(* (store_begin: what the method does before "with self._lock"), takes the *)
(* lock and evaluates the test or the comprehensions of the body           *)
(* (store_acquire), and assigns or deletes, leaves the "with" block and    *)
(* returns (store_write).  The clock advances by a second with every call  *)
(* made.  last records the returning call: its arguments in id, the dicts  *)
(* when the lock was taken in pre, the dicts at the return in target.      *)

Args(session_id, session, max_age_minutes, t) ==
  [session_id |-> session_id, session |-> session,
   max_age_minutes |-> max_age_minutes, t |-> t]

\* the clock when the first call is made: two minutes after the first session
\* was created at time 0
StoreStart == 2 * SecondsPerMinute

\* uuid4() of the session constructed at time t: an id nobody else has
NewId(t) == "new" \o ToString(t - StoreStart)

CurrentDicts == Dicts(sessions, resume_sessions)

\* the calls a thread can make next
StoreCalls(t) ==
  {[op |-> "create", args |-> Args(NewId(now), StoredSession(NewId(now), "NOT_STARTED", now), 0, now)]}
  \cup {[op |-> "get", args |-> Args("s1", NoStored, 0, now)]}
  \cup {[op |-> "delete", args |-> Args(i, NoStored, 0, now)] :
          i \in {"s1"} \cup ({threads[t].held.session_id} \ {"-"})}
  \cup {[op |-> "update", args |-> Args(threads[t].held.session_id, threads[t].held, 0, now)] :
          x \in {threads[t].held} \ {NoStored}}
  \cup {[op |-> "cleanup", args |-> Args("-", NoStored, 1, now)]}

store_begin(t, call) ==
  /\ threads[t].pc = "idle"
  /\ now < StoreStart + MaxStoreCalls
  /\ now' = now + 1
  /\ threads' = [threads EXCEPT ![t].pc = "waiting", ![t].op = call.op,
                                ![t].arg = call.args]
  /\ UNCHANGED <<sessions, last, pending, resume_sessions, lock>>

store_acquire(t) ==
  /\ threads[t].pc = "waiting"
  /\ lock_free(lock)
  /\ lock' = t
  /\ threads' = [threads EXCEPT ![t].pc = "locked", ![t].seen = CurrentDicts]
  /\ UNCHANGED <<sessions, now, last, pending, resume_sessions>>

\* the body of the method the thread is in
store_body(c) ==
  CASE c.op = "create" ->
         StoreResult(store_session(sessions, c.arg.session), resume_sessions,
                     c.arg.session, NoExc)
    [] c.op = "get" ->
         StoreResult(sessions, resume_sessions,
                     get_session(sessions, c.arg.session_id), NoExc)
    [] c.op = "update" ->
         StoreResult(update_session_locked(c.seen.s, sessions, c.arg.session),
                     resume_sessions, NoStored, NoExc)
    [] c.op = "delete" ->
         delete_session_locked(c.seen.s, sessions, resume_sessions, c.arg.session_id)
    [] c.op = "cleanup" ->
         cleanup_expired_locked(c.seen.s, c.seen.r, sessions, resume_sessions,
                                c.arg.t, c.arg.max_age_minutes)

store_write(t) ==
  /\ threads[t].pc = "locked"
  /\ LET c == threads[t]
         r == store_body(c)
     IN /\ sessions' = r.s
        /\ resume_sessions' = r.r
        /\ lock' = Unlocked
        /\ threads' = [threads EXCEPT ![t] =
             [IdleThread EXCEPT
                !.held = IF c.op \in {"create", "get"} THEN r.ret ELSE c.held,
                !.returned = IF r.exc = NoExc /\ c.op = "delete" /\ r.ret
                               THEN c.arg.session_id ELSE "-"]]
        /\ last' = Call(c.op, c.arg, StatusOf(r), r.exc, c.seen, r.ret,
                        Dicts(r.s, r.r), FALSE)
  /\ UNCHANGED <<now, pending>>

\* what the store holds when the first call is made: the session s1 (two
\* minutes old and running, or a minute old and completed) or not, a
\* cancelled session s2 two minutes old, a resume r1 two minutes old and a
\* resume r2 a minute old; the first thread may hold s1 from a get_session
\* made before
InitStore ==
  /\ \E a \in SUBSET {StoredSession("s1", "QUESTIONING", 0),
                       StoredSession("s1", "COMPLETED", SecondsPerMinute)} :
       /\ Cardinality(a) <= 1
       /\ sessions = [i \in {x.session_id : x \in a} \cup {"s2"} |->
                        IF i = "s2" THEN StoredSession("s2", "CANCELLED", 0)
                        ELSE CHOOSE x \in a : TRUE]
  /\ resume_sessions = [i \in {"r1", "r2"} |->
                          IF i = "r1" THEN StoredSession("r1", "-", 0)
                          ELSE StoredSession("r2", "-", SecondsPerMinute)]
  /\ now = StoreStart
  /\ last = NoCall
  /\ pending = <<>>
  /\ lock = Unlocked
  /\ \E h \in BOOLEAN :
       threads = [t \in Threads |->
                    IF h /\ t = 1 /\ "s1" \in DOMAIN sessions
                      THEN [IdleThread EXCEPT !.held = sessions["s1"]]
                      ELSE IdleThread]

NextStore ==
  \/ \E t \in Threads : \E call \in StoreCalls(t) : store_begin(t, call)
  \/ \E t \in Threads : store_acquire(t)
  \/ \E t \in Threads : store_write(t)

SpecStore == InitStore /\ [][NextStore]_vars

-----------------------------------------------------------------------------
(* flow_controller.py: extract_json_from_response.  A text is a sequence   *)
(* of the characters the function tells apart: "{", "}", "[", "]", "w" a   *)
(* whitespace character, "F" a code fence (three backticks), "J" the word  *)
(* json, and "1" and "p" any other character (of a JSON document and of    *)
(* prose).                                                                 *)

\* str.strip(): leading and trailing whitespace removed
RECURSIVE strip(_)
strip(text) ==
  IF text = <<>> THEN <<>>
  ELSE IF Head(text) = "w" THEN strip(Tail(text))
  ELSE IF text[Len(text)] = "w" THEN strip(SubSeq(text, 1, Len(text) - 1))
  ELSE text

\* str.find: the first position of char, 0 when there is none
find(text, char) ==
  IF \E i \in 1..Len(text) : text[i] = char
    THEN CHOOSE i \in 1..Len(text) :
           text[i] = char /\ \A k \in 1..(i - 1) : text[k] # char
    ELSE 0

\* brace_count after the characters start..i were read
count(text, open, close, start, i) ==
  Cardinality({k \in start..i : text[k] = open})
  - Cardinality({k \in start..i : text[k] = close})

\* the positions at which the scanning loop returns: a closing character that
\* brings the count to 0
closings(text, open, close, start) ==
  {i \in start..Len(text) : text[i] = close /\ count(text, open, close, start, i) = 0}

\* lines 36-45 and 48-57: from the first opening character to the closing
\* character that balances it; <<>> when the loop ends without returning
balanced(text, open, close) ==
  LET start == find(text, open)
      ends == IF start = 0 THEN {} ELSE closings(text, open, close, start)
  IN  IF ends = {} THEN <<>>
      ELSE SubSeq(text, start, CHOOSE i \in ends : \A k \in ends : i <= k)

\* re.findall(code_block_pattern, response)[0]: the text between the first
\* fence that has a later fence, behind an optional "json" and whitespace, and
\* the next fence; matches is empty when the text has no two fences
code_block(text) ==
  LET fences == {i \in 1..Len(text) : text[i] = "F"}
      opening == CHOOSE i \in fences : \A k \in fences : i <= k
      body == IF opening < Len(text) /\ text[opening + 1] = "J" THEN opening + 2
              ELSE opening + 1
      closing == CHOOSE j \in fences : j > opening /\ \A k \in fences : k > opening => j <= k
  IN  IF Cardinality(fences) < 2 THEN [found |-> FALSE, content |-> <<>>]
      ELSE [found |-> TRUE, content |-> SubSeq(text, body, closing - 1)]

extract_json_from_response(response) ==
  LET stripped == strip(response)
      block == code_block(stripped)
      object == balanced(stripped, "{", "}")
      array == balanced(stripped, "[", "]")
  IN  IF response = <<>> THEN <<>>
      ELSE IF block.found /\ strip(block.content) # <<>> THEN strip(block.content)
      ELSE IF Head(stripped) \in {"{", "["} THEN stripped
      ELSE IF object # <<>> THEN object
      ELSE IF array # <<>> THEN array
      ELSE stripped

\* the nesting depth of the documents
MaxDepth == 2

\* JSON documents: objects and arrays nested up to MaxDepth, the empty object
\* and array, and an array of two objects
RECURSIVE Nested(_, _, _)
Nested(open, close, depth) ==
  IF depth = 0 THEN <<"1">>
  ELSE <<open>> \o Nested(open, close, depth - 1) \o <<close>>

Documents ==
  {Nested("{", "}", d) : d \in 1..MaxDepth}
  \cup {Nested("[", "]", d) : d \in 1..MaxDepth}
  \cup {<<"{", "}">>, <<"[", "]">>,
        <<"{", "1">> \o Nested("[", "]", 1) \o <<"}">>,
        <<"[">> \o Nested("{", "}", 1) \o <<"1">> \o Nested("{", "}", 1) \o <<"]">>}

\* prose before and after the document, without braces, brackets or fences
Proses == {<<>>, <<"p">>, <<"p", "w", "p">>}

\* the document as it is, or inside a code fence with or without the word json
Fenced(document, fence) ==
  CASE fence = "none" -> document
    [] fence = "plain" -> <<"F", "w">> \o document \o <<"w", "F">>
    [] fence = "json" -> <<"F", "J", "w">> \o document \o <<"w", "F">>

Response(leading, document, fence, trailing) ==
  LET before == IF leading = <<>> THEN <<>> ELSE leading \o <<"w">>
      after == IF trailing = <<>> THEN <<>> ELSE <<"w">> \o trailing
  IN  before \o Fenced(document, fence) \o after

\* extract_json_from_response called on a response that holds one document;
\* the call's record keeps the parts of the response, the response and the
\* text returned
call_extract_json_from_response(leading, document, fence, trailing) ==
  /\ last = NoCall
  /\ now' = now + 1
  /\ last' = Call("extract_json_from_response", "-", 200, NoExc,
                  [leading |-> leading, document |-> document, fence |-> fence,
                   trailing |-> trailing],
                  [text |-> extract_json_from_response(
                              Response(leading, document, fence, trailing))],
                  [response |-> Response(leading, document, fence, trailing)], FALSE)
  /\ UNCHANGED <<sessions, pending, store_vars>>

InitExtract ==
  /\ sessions = [id \in SessionIds |-> NewSession(CHOOSE j \in DirectJobs : TRUE)]
  /\ now = 1
  /\ last = NoCall
  /\ pending = <<>>
  /\ StoreIdle

NextExtract ==
  \E leading \in Proses, document \in Documents, fence \in {"none", "plain", "json"},
     trailing \in Proses :
    call_extract_json_from_response(leading, document, fence, trailing)

SpecExtract == InitExtract /\ [][NextExtract]_vars

-----
(* The controller's coroutines on one event loop.  process_response is a   *)
(* coroutine: it runs to its first await of the LLM capability (line 544   *)
(* for the evaluation, line 756 for the conclusion), other calls on the    *)
(* same stored object run while it is suspended, and it goes on from the   *)
(* await when the reply arrives.  Every await is followed by the logging   *)
(* call of lines 546 and 758, which raises, so that the part after an      *)
(* await is one step.  end_interview_early has no await (lines 253-271).   *)
(* pending holds the suspended calls.                                      *)

MaxPending == 2

Suspended(id, candidate_response, at, state) ==
  [id |-> id, response |-> candidate_response, at |-> at, state |-> state]

Without(seq, i) == SubSeq(seq, 1, i - 1) \o SubSeq(seq, i + 1, Len(seq))

\* the replies a resumed process_response consumes: the reply to the
\* evaluation it awaits, or the reply to the conclusion it awaits
ResumeLLMs ==
  [greeting : {Reply("valid")}, preplan : {Reply("valid")},
   question : {Reply("valid")}, evaluate : EvaluationReplies,
   conclusion : {Reply("valid")}, followup_draw : Draws, coding_draw : CodingDraws]
  \cup [greeting : {Reply("valid")}, preplan : {Reply("valid")},
        question : {Reply("valid")}, evaluate : {Reply("valid")},
        conclusion : TextReplies, followup_draw : {0}, coding_draw : CodingDraws]

\* process_response is called and runs to its first await, or raises before it
begin_process_response(id, candidate_response) ==
  /\ now <= MaxCalls
  /\ Len(pending) < MaxPending
  /\ LET r == process_response_to_llm(sessions[id], candidate_response) IN
       /\ sessions' = [sessions EXCEPT ![id] = r.s]
       /\ now' = now + 1
       /\ pending' = IF r.exc.name = "None"
                       THEN Append(pending, Suspended(id, candidate_response, r.ret,
                                                      sessions[id].state))
                       ELSE pending
       /\ UNCHANGED store_vars
       /\ last' = Call("respond_begin", id, IF r.exc.name = "None" THEN 0 ELSE 500,
                       r.exc, sessions[id], NoMessage, "-", FALSE)

\* the reply to the suspended call pending[i] arrives: the call goes on, on the
\* session as it is by now; target records the state the call was made in
resume_process_response(i, llm) ==
  /\ now <= MaxCalls
  /\ i \in 1..Len(pending)
  /\ LET c == pending[i]
         r == IF c.at = "conclusion"
                THEN _conclude_interview_from_llm(sessions[c.id], llm, now + 1)
                ELSE process_response_from_llm(sessions[c.id], c.response, llm, now + 1)
     IN /\ sessions' = [sessions EXCEPT ![c.id] = r.s]
        /\ now' = now + 1
        /\ pending' = Without(pending, i)
        /\ UNCHANGED store_vars
        /\ last' = Call("respond_resume", c.id, StatusOf(r), r.exc, sessions[c.id],
                        r.ret, c.state, Fails(llm))

\* end_interview_early is called, possibly between the two halves of a
\* process_response
run_end_interview_early(id, reason) ==
  /\ now <= MaxCalls
  /\ LET r == end_interview_early(sessions[id], reason, now + 1) IN
       /\ sessions' = [sessions EXCEPT ![id] = r.s]
       /\ now' = now + 1
       /\ last' = Call("end", id, StatusOf(r), r.exc, sessions[id], r.ret, "-", FALSE)
       /\ UNCHANGED <<pending, store_vars>>

\* the sessions a call can find: not started, or on a topic of a plan of
\* MaxTopics topics, before its first follow-up or after its last
InitAsync ==
  /\ sessions \in [SessionIds -> {x \in DirectSessions :
                        \/ x.state = "NOT_STARTED"
                        \/ /\ Len(x.preplanned_topics) = MaxTopics
                           /\ x.current_topic_index < MaxTopics
                           /\ x.followups_for_current
                                \in {0, x.job_data.max_followup_per_question}}]
  /\ now = 1
  /\ last = NoCall
  /\ pending = <<>>
  /\ StoreIdle

NextAsync ==
  \/ \E id \in SessionIds, response \in Texts : begin_process_response(id, response)
  \/ \E i \in 1..MaxPending, llm \in ResumeLLMs : resume_process_response(i, llm)
  \/ \E id \in SessionIds, reason \in BOOLEAN :
       run_end_interview_early(id, reason)

SpecAsync == InitAsync /\ [][NextAsync]_vars

-----------------------------------------------------------------------------
(* Properties.  A property about one call reads it from last: the session  *)
(* before the call is last.pre, the session after it is sessions[last.id]. *)

\* the call reached the controller
Ran(op) == last.op = op /\ last.status \in {200, 500}

After == sessions[last.id]

\* the transition table as the specification lists it, pair by pair
LegalPairs ==
  {<<"NOT_STARTED", "GREETING">>, <<"NOT_STARTED", "CANCELLED">>,
   <<"GREETING", "PREPLANNING">>, <<"GREETING", "CANCELLED">>,
   <<"PREPLANNING", "QUESTIONING">>, <<"PREPLANNING", "CANCELLED">>,
   <<"QUESTIONING", "FOLLOW_UP">>, <<"QUESTIONING", "TRANSITIONING">>,
   <<"QUESTIONING", "CONCLUDING">>, <<"QUESTIONING", "CANCELLED">>,
   <<"FOLLOW_UP", "FOLLOW_UP">>, <<"FOLLOW_UP", "TRANSITIONING">>,
   <<"FOLLOW_UP", "CONCLUDING">>, <<"FOLLOW_UP", "CANCELLED">>,
   <<"TRANSITIONING", "QUESTIONING">>, <<"TRANSITIONING", "CONCLUDING">>,
   <<"TRANSITIONING", "CANCELLED">>,
   <<"CONCLUDING", "COMPLETED">>}

TurnBoundaries == {"QUESTIONING", "FOLLOW_UP", "COMPLETED"}

(* C1: transition_state(session, target) sets session.state to target      *)
(* exactly when the pair (current state, target) is in the transition      *)
(* table; for every other pair over the nine states it raises              *)
(* StateMachineError naming both states and leaves the session, its state  *)
(* and every other field, as it was.                                       *)
C1_TransitionTable ==
  Ran("transition_state") =>
    IF <<last.pre.state, last.target>> \in LegalPairs
      THEN /\ last.exc = NoExc
           /\ After = [last.pre EXCEPT !.state = last.target]
      ELSE /\ last.exc = StateMachineError(last.pre.state, last.target)
           /\ After = last.pre

\* an illegal transition out of a terminal state was refused
C1_Witness ==
  /\ Ran("transition_state")
  /\ last.pre.state = "COMPLETED"
  /\ last.target = "QUESTIONING"
  /\ last.exc.name = "StateMachineError"
  /\ After = last.pre

(* C2: once a session is COMPLETED or CANCELLED, no HTTP call changes its  *)
(* state, messages, evaluations or current_question: every later start,    *)
(* respond or end call is rejected (400) before the controller runs.       *)
C2_TerminalFrozen ==
  [][\A id \in DOMAIN sessions :
       sessions[id].state \in {"COMPLETED", "CANCELLED"} =>
         /\ id \in DOMAIN sessions'
         /\ sessions'[id].state = sessions[id].state
         /\ sessions'[id].messages = sessions[id].messages
         /\ sessions'[id].evaluations = sessions[id].evaluations
         /\ sessions'[id].current_question = sessions[id].current_question
         /\ (last'.id = id /\ last'.op \in {"start", "respond", "end"}) =>
              last'.status = 400]_vars

\* a respond call on a cancelled session was rejected
C2_Witness ==
  /\ last.op = "respond"
  /\ last.status = 400
  /\ last.pre.state = "CANCELLED"
  /\ After = last.pre

\* the text the candidate sent in the latest process_response call
CandidateText == After.messages[Len(last.pre.messages) + 1].content

C5_StartReachesQuestioning ==
  (Ran("start") /\ last.pre.state = "NOT_STARTED" /\ ~last.llm_failed) =>
    /\ last.exc = NoExc
    /\ After.state = "QUESTIONING"
    /\ After.started_at # NoTime
    /\ After.current_question # NoQuestion
    /\ After.questions_asked = 1
    /\ Len(After.messages) = Len(last.pre.messages) + 2
    /\ \A i \in Len(last.pre.messages) + 1 .. Len(After.messages) :
         After.messages[i].role = "interviewer"
    /\ LastMessage(After).metadata =
         [question_id |-> After.current_question.id,
          skill |-> After.current_question.skill]
    /\ last.ret = LastMessage(After)

(* C6: start_interview on a session in any state other than NOT_STARTED     *)
(* raises StateMachineError and changes nothing in the session.            *)
C6_StartOnlyFromNotStarted ==
  (Ran("start") /\ last.pre.state # "NOT_STARTED") =>
    /\ last.exc = StateMachineError(last.pre.state, "GREETING")
    /\ After = last.pre

\* a second start on a session resting in GREETING was refused
C6_Witness ==
  /\ Ran("start")
  /\ last.pre.state = "GREETING"
  /\ last.exc.name = "StateMachineError"
  /\ After = last.pre

(* C7: whatever text the LLM returns, start_interview on a NOT_STARTED      *)
(* session and process_response on a QUESTIONING or FOLLOW_UP session       *)
(* return an interviewer message; the only exception that can leave them is *)
(* StateMachineError.                                                       *)
C7_OnlyInvalidTransitionEscapes ==
  (/\ ~last.llm_failed
   /\ \/ Ran("start") /\ last.pre.state = "NOT_STARTED"
      \/ Ran("respond") /\ last.pre.state \in {"QUESTIONING", "FOLLOW_UP"}) =>
    /\ last.exc.name \in {"None", "StateMachineError"}
    /\ last.exc = NoExc => last.ret.role = "interviewer"

(* C8: a timeout or failure of an LLM completion call during                *)
(* start_interview or process_response does not leave the operation: the    *)
(* fallback value is substituted and the turn completes.                    *)
C8_LLMFailureNotPropagated ==
  (Ran("start") \/ Ran("respond")) => last.exc.name # "APITimeoutError"

(* C9: whatever the LLM returns and however it fails, a start_interview or  *)
(* process_response call that has ended leaves the session at a turn        *)
(* boundary (QUESTIONING, FOLLOW_UP or COMPLETED), never in GREETING,       *)
(* PREPLANNING, TRANSITIONING or CONCLUDING.                                *)
C9_NeverStuckMidTurn ==
  (Ran("start") \/ Ran("respond")) => After.state \in TurnBoundaries

-----------------------------------------------------------------------------
(* The Decision Engine as the specification states it (section 4.2), read  *)
(* off the inputs of the latest _decide_next_action call.                  *)

\* weighted_score with the default weights 0.5, 0.3, 0.2, in percent of percent
SpecWeighted ==
  last.target.evaluation.correctness_score * 50
  + last.target.evaluation.depth_score * 30
  + last.target.evaluation.communication_score * 20

SpecMaxQuestions == last.pre.job_data.max_questions

SpecMaxFollowups == last.pre.job_data.max_followup_per_question

Rule1 == last.pre.questions_asked >= SpecMaxQuestions

Rule2 ==
  /\ last.pre.current_topic_index >= Len(last.pre.preplanned_topics) - 1
  /\ last.pre.followups_for_current >= SpecMaxFollowups

Rule3 == last.target.response.skip_phrase

Rule4 == last.pre.followups_for_current >= SpecMaxFollowups

Rule5 ==
  \/ last.target.response.length < 30
  \/ last.target.evaluation.confidence_level = "LOW"

Rule6 == SpecWeighted >= 8500

Rule7 ==
  /\ last.pre.followups_for_current < SpecMaxFollowups
  /\ last.pre.questions_asked < SpecMaxQuestions
  /\ SpecWeighted >= 3000 /\ SpecWeighted < 8500
  /\ last.target.draw < 35

\* the action of the first matching rule
SpecAction ==
  IF Rule1 \/ Rule2 THEN "END_INTERVIEW"
  ELSE IF Rule3 \/ Rule4 \/ Rule5 \/ Rule6 THEN "MOVE_TO_NEXT_QUESTION"
  ELSE IF Rule7 THEN "ASK_FOLLOWUP"
  ELSE "MOVE_TO_NEXT_QUESTION"

(* C13: for every combination of counters, plan length, policy limits,      *)
(* candidate text, evaluation and random draw, _decide_next_action returns  *)
(* the action of the first matching rule of the ordered 8-rule algorithm.   *)
C13_FirstMatchingRule ==
  (Ran("decide") /\ ~last.llm_failed) =>
    /\ last.exc = NoExc
    /\ last.ret.action = SpecAction

(* C14 as stated: given weighted_score >= 0.85, the engine returns          *)
(* MOVE_TO_NEXT_QUESTION in every session state, whatever the draw.         *)
C14_HighScoreAlwaysMoves ==
  (Ran("decide") /\ SpecWeighted >= 8500) =>
    /\ last.exc = NoExc
    /\ last.ret.action = "MOVE_TO_NEXT_QUESTION"

(* C14: given weighted_score >= 0.85, the engine never returns ASK_FOLLOWUP *)
(* and its action does not depend on the random draw: it is END_INTERVIEW   *)
(* when the question limit is reached (rule 1) or the last topic is         *)
(* exhausted (rule 2), MOVE_TO_NEXT_QUESTION otherwise.                     *)
C14_HighScoreNeverFollowsUp ==
  (Ran("decide") /\ SpecWeighted >= 8500) =>
    /\ last.exc = NoExc
    /\ last.ret.action =
         IF Rule1 \/ Rule2 THEN "END_INTERVIEW" ELSE "MOVE_TO_NEXT_QUESTION"

\* a full-score answer with a follow-up still allowed and a draw below 35
C14_Witness ==
  /\ Ran("decide")
  /\ SpecWeighted = 10000
  /\ ~Rule1 /\ ~Rule2 /\ ~Rule3 /\ ~Rule4 /\ ~Rule5
  /\ last.target.draw < 35
  /\ last.ret.action = "MOVE_TO_NEXT_QUESTION"

\* the engine is invoked by process_response: the question limit is not reached
InvokedByProcessResponse == last.pre.questions_asked < SpecMaxQuestions

(* C15 as stated: the candidate text "skip" yields MOVE_TO_NEXT_QUESTION    *)
(* for every evaluation, in every session state in which process_response   *)
(* invokes the engine.                                                      *)
C15_SkipAlwaysMoves ==
  (Ran("decide") /\ last.target.response.id = "skip" /\ InvokedByProcessResponse) =>
    /\ last.exc = NoExc
    /\ last.ret.action = "MOVE_TO_NEXT_QUESTION"

(* C15: the candidate text "skip" yields, for every evaluation and in every *)
(* session state in which process_response invokes the engine,              *)
(* END_INTERVIEW when the session is on its last topic with the follow-up   *)
(* limit reached (rule 2) and MOVE_TO_NEXT_QUESTION otherwise.              *)
C15_SkipMovesUnlessExhausted ==
  (Ran("decide") /\ last.target.response.id = "skip" /\ InvokedByProcessResponse) =>
    /\ last.exc = NoExc
    /\ last.ret.action = IF Rule2 THEN "END_INTERVIEW" ELSE "MOVE_TO_NEXT_QUESTION"

\* "skip" on the last topic with a follow-up still allowed: the request moves on
C15_Witness ==
  /\ Ran("decide")
  /\ last.target.response.id = "skip"
  /\ InvokedByProcessResponse
  /\ last.pre.current_topic_index >= Len(last.pre.preplanned_topics) - 1
  /\ ~Rule2
  /\ last.target.evaluation.correctness_score = 100
  /\ last.ret = Decision("MOVE_TO_NEXT_QUESTION", "Candidate requested to move on",
                         NoQuestion)

\* the third evaluation on a topic that received two follow-ups, limit 2, in
\* the follow-up-eligible band, the text holding no skip phrase
ThirdEvaluationInBand ==
  /\ Ran("decide")
  /\ SpecMaxFollowups = 2
  /\ last.pre.followups_for_current = 2
  /\ InvokedByProcessResponse
  /\ SpecWeighted >= 3000 /\ SpecWeighted < 8500
  /\ ~last.target.response.skip_phrase

(* C16 as stated: that evaluation yields MOVE_TO_NEXT_QUESTION with reason  *)
(* "follow-up limit reached" on every topic of the plan, the last included. *)
C16_ThirdFollowupMovesOn ==
  ThirdEvaluationInBand =>
    last.ret = Decision("MOVE_TO_NEXT_QUESTION", "Follow-up limit reached", NoQuestion)

(* C16: with max_followup_per_question = 2, after two follow-ups on a topic *)
(* a third evaluation in the band [0.3, 0.85) never yields a third          *)
(* follow-up: on every topic but the last it yields MOVE_TO_NEXT_QUESTION   *)
(* with reason "Follow-up limit reached", on the last topic END_INTERVIEW   *)
(* with reason "All topics covered".                                        *)
C16_ThirdFollowupMovesOnOrEnds ==
  ThirdEvaluationInBand =>
    last.ret =
      IF last.pre.current_topic_index >= Len(last.pre.preplanned_topics) - 1
        THEN Decision("END_INTERVIEW", "All topics covered", NoQuestion)
        ELSE Decision("MOVE_TO_NEXT_QUESTION", "Follow-up limit reached", NoQuestion)

\* the limit stops a third follow-up on a topic that is not the last
C16_Witness ==
  /\ ThirdEvaluationInBand
  /\ last.pre.current_topic_index < Len(last.pre.preplanned_topics) - 1
  /\ last.target.response.length >= 30
  /\ last.target.evaluation.confidence_level = "HIGH"
  /\ last.target.draw < 35
  /\ last.ret.reason = "Follow-up limit reached"

(* C17: with max_questions = 1, questions_asked is 1 after start_interview, *)
(* and the first process_response call concludes the interview (the state   *)
(* becomes COMPLETED) for every candidate text and every evaluation,        *)
(* without appending an evaluation or issuing another question.             *)
C17_SingleQuestionInterview ==
  /\ (Ran("start") /\ last.pre.state = "NOT_STARTED"
        /\ last.pre.job_data.max_questions = 1 /\ ~last.llm_failed) =>
       After.questions_asked = 1
  /\ (Ran("respond") /\ last.pre.state = "QUESTIONING"
        /\ last.pre.questions_asked = 1
        /\ last.pre.job_data.max_questions = 1 /\ ~last.llm_failed) =>
       /\ After.state = "COMPLETED"
       /\ After.evaluations = last.pre.evaluations
       /\ After.questions_asked = 1
       /\ After.current_question = last.pre.current_question

\* end_interview_early cancelled the session: CANCELLED, ended_at stamped, one
\* closing interviewer message appended and returned, nothing else changed
Cancelled ==
  /\ last.exc = NoExc
  /\ After.ended_at # NoTime
  /\ LastMessage(After).role = "interviewer"
  /\ last.ret = LastMessage(After)
  /\ After = [last.pre EXCEPT !.state = "CANCELLED",
                              !.ended_at = After.ended_at,
                              !.messages = Append(@, LastMessage(After))]

(* C18 as stated: end_interview_early on a session in any non-terminal      *)
(* state leaves it CANCELLED with ended_at stamped and exactly one closing  *)
(* interviewer message appended, every other field unchanged.               *)
C18_EndCancelsEveryActiveSession ==
  (Ran("end") /\ last.pre.state \notin {"COMPLETED", "CANCELLED"}) => Cancelled

(* C18: end_interview_early on a session in any non-terminal state other    *)
(* than CONCLUDING leaves it CANCELLED with ended_at stamped and exactly    *)
(* one closing interviewer message appended, every other field unchanged;   *)
(* on a session in CONCLUDING it raises StateMachineError and changes       *)
(* nothing.                                                                 *)
C18_EndCancelsUnlessConcluding ==
  Ran("end") =>
    /\ last.pre.state \notin {"COMPLETED", "CANCELLED", "CONCLUDING"} => Cancelled
    /\ last.pre.state = "CONCLUDING" =>
         /\ last.exc = StateMachineError("CONCLUDING", "CANCELLED")
         /\ After = last.pre

\* a session cancelled in the middle of a follow-up keeps its counters
C18_Witness ==
  /\ Ran("end")
  /\ last.pre.state = "FOLLOW_UP"
  /\ last.pre.followups_for_current > 0
  /\ After.state = "CANCELLED"
  /\ After.followups_for_current = last.pre.followups_for_current
  /\ Len(After.messages) = Len(last.pre.messages) + 1

\* a process_response called on a session that was not cancelled goes on from
\* its await on the session cancelled meanwhile
ResumedAfterCancel ==
  /\ last.op = "respond_resume"
  /\ last.target # "CANCELLED"
  /\ last.pre.state = "CANCELLED"

(* C19: when end_interview_early completes on a session while a            *)
(* process_response on it is suspended at an LLM call, the resumed         *)
(* process_response appends no message and no evaluation, replaces no      *)
(* current_question, and changes no counter and no state.                  *)
C19_ResumedAfterCancelMutatesNothing ==
  ResumedAfterCancel =>
    /\ After.state = "CANCELLED"
    /\ After.messages = last.pre.messages
    /\ After.evaluations = last.pre.evaluations
    /\ After.current_question = last.pre.current_question
    /\ After.questions_asked = last.pre.questions_asked
    /\ After.followups_for_current = last.pre.followups_for_current
    /\ After.current_topic_index = last.pre.current_topic_index

\* a response given in QUESTIONING is evaluated by a reply that arrives after
\* the cancellation: the transcript ends with the closing message
C19_Witness ==
  /\ ResumedAfterCancel
  /\ last.target = "QUESTIONING"
  /\ ~last.llm_failed
  /\ last.status = 500
  /\ Len(After.messages) >= 3
  /\ LastMessage(After).role = "interviewer"
  /\ After.ended_at # NoTime

\* what a call of one of the three predicates returned is what its definition
\* in the specification gives, and the session is as it was
PredicateAnswers ==
  /\ last.op = "is_terminal_state" =>
       /\ last.ret = (last.pre.state \in {"COMPLETED", "CANCELLED"})
       /\ last.ret = (\A t \in States : <<last.pre.state, t>> \notin LegalPairs)
       /\ After = last.pre
  /\ last.op = "is_active_state" =>
       /\ last.ret = (last.pre.state \notin {"NOT_STARTED", "COMPLETED", "CANCELLED"})
       /\ After = last.pre
  /\ last.op = "can_transition" =>
       /\ last.ret = (<<last.pre.state, last.target>> \in LegalPairs)
       /\ After = last.pre

\* two calls of a predicate in a row with the same arguments
SameQueryAgain ==
  /\ last.op \in {"is_terminal_state", "is_active_state", "can_transition"}
  /\ last'.op = last.op
  /\ last'.pre.state = last.pre.state
  /\ last'.target = last.target

(* C21: for each of the 9 states is_terminal_state is true iff the state is *)
(* COMPLETED or CANCELLED (the states without a successor in the table),    *)
(* is_active_state is true iff it is none of NOT_STARTED, COMPLETED,        *)
(* CANCELLED; no predicate changes the session, and a repeated call returns *)
(* what the call before it returned.                                        *)
C21_PredicatesPureAndExact ==
  /\ []PredicateAnswers
  /\ [][SameQueryAgain => (last'.ret = last.ret /\ sessions' = sessions)]_vars

\* CONCLUDING is asked about twice: active, not terminal
C21_Witness ==
  /\ last.op = "is_terminal_state"
  /\ last.pre.state = "CONCLUDING"
  /\ last.ret = FALSE
  /\ is_active_state(After.state)
  /\ now > 2

\* the store's methods as the specification describes them, applied to the
\* dicts d a call found, with the arguments a
SequentialCleanup(d, a) ==
  LET old(x) == a.t - x.created_at > a.max_age_minutes * 60
      gone == {i \in DOMAIN d.s : old(d.s[i]) /\ d.s[i].state \in {"COMPLETED", "CANCELLED"}}
      stale == {i \in DOMAIN d.r : old(d.r[i])}
  IN  [s |-> [i \in DOMAIN d.s \ gone |-> d.s[i]],
       r |-> [i \in DOMAIN d.r \ stale |-> d.r[i]],
       ret |-> Cardinality(gone) + Cardinality(stale)]

(* C22: cleanup_expired(max_age) removes exactly the sessions that are     *)
(* older than max_age by created_at and in a terminal state, and every     *)
(* resume entry older than max_age, and returns the number of entries      *)
(* removed; a session in a non-terminal state is never removed.            *)
C22_CleanupRemovesOldEnded ==
  last.op = "cleanup" =>
    /\ last.exc = NoExc
    /\ last.target.s = SequentialCleanup(last.pre, last.id).s
    /\ last.target.r = SequentialCleanup(last.pre, last.id).r
    /\ last.ret = SequentialCleanup(last.pre, last.id).ret
    /\ \A i \in DOMAIN last.pre.s :
         last.pre.s[i].state \notin {"COMPLETED", "CANCELLED"} =>
           i \in DOMAIN last.target.s

\* one cleanup removed an ended session and a resume, and kept an old
\* session that has not ended and a resume exactly max_age old
C22_Witness ==
  /\ last.op = "cleanup"
  /\ last.id.max_age_minutes = 1
  /\ last.ret = 2
  /\ "s2" \in DOMAIN last.pre.s /\ "s2" \notin DOMAIN last.target.s
  /\ "s1" \in DOMAIN last.target.s
  /\ last.target.s["s1"].state = "QUESTIONING"
  /\ last.target.s["s1"].created_at = 0
  /\ DOMAIN last.target.r = {"r2"}

(* C23: update_session of a session whose id is not in the store leaves    *)
(* the store unchanged and raises nothing, so a session that was deleted   *)
(* or cleaned up is not inserted again and get_session keeps returning     *)
(* None for it; delete_session returns True only when the id was present.  *)
C23_UpdateOfUnknownIdIsNoOp ==
  /\ (last.op = "update" /\ last.id.session_id \notin DOMAIN last.pre.s) =>
       /\ last.exc = NoExc
       /\ last.target = last.pre
  /\ (last.op = "get" /\ last.id.session_id \notin DOMAIN last.pre.s) =>
       last.ret = NoStored
  /\ last.op = "delete" =>
       /\ last.exc = NoExc
       /\ last.ret = (last.id.session_id \in DOMAIN last.pre.s)
       /\ last.id.session_id \notin DOMAIN last.target.s

\* a thread updates the session it holds after the session left the store
C23_Witness ==
  /\ last.op = "update"
  /\ last.id.session # NoStored
  /\ last.id.session_id \notin DOMAIN last.pre.s
  /\ last.id.session_id \notin DOMAIN sessions
  /\ last.status = 200

\* what a call returns and leaves behind when it runs alone on the dicts d
Sequential(op, d, a) ==
  CASE op = "create" ->
         [s |-> [i \in DOMAIN d.s \cup {a.session_id} |->
                   IF i = a.session_id THEN a.session ELSE d.s[i]],
          r |-> d.r, ret |-> a.session]
    [] op = "get" ->
         [s |-> d.s, r |-> d.r,
          ret |-> IF a.session_id \in DOMAIN d.s THEN d.s[a.session_id] ELSE NoStored]
    [] op = "update" ->
         [s |-> IF a.session_id \in DOMAIN d.s
                  THEN [d.s EXCEPT ![a.session_id] = a.session] ELSE d.s,
          r |-> d.r, ret |-> NoStored]
    [] op = "delete" ->
         [s |-> [i \in DOMAIN d.s \ {a.session_id} |-> d.s[i]], r |-> d.r,
          ret |-> a.session_id \in DOMAIN d.s]
    [] op = "cleanup" -> SequentialCleanup(d, a)

StoreOps == {"create", "get", "update", "delete", "cleanup"}

IsPrefix(a, b) == Len(a) <= Len(b) /\ SubSeq(b, 1, Len(a)) = a

\* the three sequences of the session s1 before and after a step
Extended(before, after) ==
  /\ IsPrefix(before.messages, after.messages)
  /\ IsPrefix(before.evaluations, after.evaluations)
  /\ IsPrefix(before.llm_logs, after.llm_logs)

(* C25: messages, evaluations and llm_logs are append-only: after every    *)
(* operation the previous content of each sequence is an unchanged prefix  *)
(* of its new content.                                                     *)
C25_SequencesAppendOnly == [][Extended(sessions["s1"], sessions'["s1"])]_vars

\* each of the three sequences has grown, evaluations twice
C25_Witness ==
  /\ Len(sessions["s1"].messages) >= 1
  /\ Len(sessions["s1"].evaluations) >= 2
  /\ sessions["s1"].evaluations[1] # sessions["s1"].evaluations[2]
  /\ Len(sessions["s1"].llm_logs) >= 1

\* the plan the specification falls back to: the job's first at most 5
\* primary skills in order, serial 1..n, difficulty EASY
DefaultPlan(job_data) ==
  [i \in 1..(IF job_data.n_primary_skills < 5 THEN job_data.n_primary_skills ELSE 5) |->
     [serial |-> i, skill |-> Skill(i), difficulty |-> "EASY"]]

(* C28: whenever the LLM's topic-plan response fails JSON extraction or    *)
(* schema validation (not JSON, a JSON object instead of a list, list      *)
(* items that are not valid topic records), the plan is the default plan:  *)
(* the job's first at most 5 primary_skills in order, serial 1..n,         *)
(* difficulty EASY.                                                        *)
C28_PreplanFallsBackToDefault ==
  (last.op = "_generate_preplan"
     /\ last.target \in {"malformed", "object", "invalid_items", "non_dict_items"}) =>
    /\ last.exc = NoExc
    /\ last.ret = DefaultPlan(last.pre.job_data)


-----------------------------------------------------------------------------
(* the audit dict of a session *)

\* what a round trip through the audit dict has to give back
RoundTripFields(session) ==
  <<session.messages, session.evaluations, session.questions_asked,
    session.current_topic_index, session.followups_for_current>>

\* C29: a session serialized to its audit dict and reconstructed from that dict
\* has the same messages in the same order, the same evaluations in the same
\* order and the same questions_asked, current_topic_index and
\* followups_for_current: whatever session the written dict is the dict of has
\* these fields equal to the serialized session's
C29_AuditDictRoundTrips ==
  (last.op = "_save_session_to_file" /\ last.target = "written") =>
    \A x \in DirectSessions :
      session_data(last.id, x, now) = last.ret =>
        RoundTripFields(x) = RoundTripFields(last.pre)


\* C30: when the candidate text contains an explicit end phrase, process_response
\* (on a session that may enter CONCLUDING, the LLM answering) appends the
\* candidate message, concludes the interview (state COMPLETED) and returns the
\* closing message, without appending an evaluation and without changing
\* questions_asked, current_topic_index, followups_for_current or
\* current_question.
C30_EndPhraseConcludes ==
  (Ran("respond") /\ can_transition(last.pre.state, "CONCLUDING")
     /\ CandidateText = "please end interview" /\ ~last.llm_failed) =>
    /\ Len(After.messages) > Len(last.pre.messages)
    /\ After.messages[Len(last.pre.messages) + 1].role = "candidate"
    /\ After.messages[Len(last.pre.messages) + 1].content = "please end interview"
    /\ After.state = "COMPLETED"
    /\ last.exc = NoExc
    /\ last.ret = LastMessage(After)
    /\ last.ret.role = "interviewer"
    /\ After.evaluations = last.pre.evaluations
    /\ After.questions_asked = last.pre.questions_asked
    /\ After.current_topic_index = last.pre.current_topic_index
    /\ After.followups_for_current = last.pre.followups_for_current
    /\ After.current_question = last.pre.current_question


-----------------------------------------------------------------------------
(* process_response behind the evaluation *)

\* the candidate text of the latest process_response call, as the code observes it
RespondedText == CHOOSE x \in Texts : x.id = CandidateText

\* a process_response call, the LLM answering, on a session at its questions
\* whose decision is MOVE_TO_NEXT_QUESTION for every evaluation and every draw:
\* neither END_INTERVIEW rule applies and the candidate asks to skip, or the
\* follow-up limit is reached, or the text is shorter than 30 characters
DecidedToMove ==
  /\ Ran("respond") /\ ~last.llm_failed
  /\ last.pre.state \in {"QUESTIONING", "FOLLOW_UP"}
  /\ ~RespondedText.end_phrase
  /\ last.pre.questions_asked < last.pre.job_data.max_questions
  /\ ~last_topic_exhausted(last.pre)
  /\ \/ RespondedText.skip_phrase
     \/ followup_limit_reached(last.pre)
     \/ RespondedText.length < MinResponseLength

\* C31: when the decision is MOVE_TO_NEXT_QUESTION on the last topic,
\* process_response sets current_topic_index to len(preplanned_topics), resets
\* followups_for_current to 0 and concludes (state COMPLETED) without
\* generating a question or incrementing questions_asked; on an earlier topic it
\* ends in QUESTIONING on the next topic with exactly one new main question
\* issued.
C31_MoveToNextTopic ==
  /\ (DecidedToMove
        /\ last.pre.current_topic_index = Len(last.pre.preplanned_topics) - 1) =>
       /\ After.current_topic_index = Len(After.preplanned_topics)
       /\ After.followups_for_current = 0
       /\ After.state = "COMPLETED"
       /\ After.questions_asked = last.pre.questions_asked
       /\ After.current_question = last.pre.current_question
  /\ (DecidedToMove
        /\ last.pre.current_topic_index < Len(last.pre.preplanned_topics) - 1) =>
       /\ After.state = "QUESTIONING"
       /\ After.current_topic_index = last.pre.current_topic_index + 1
       /\ After.followups_for_current = 0
       /\ After.questions_asked = last.pre.questions_asked + 1
       /\ After.current_question.type = "main"
       /\ Len(After.messages) = Len(last.pre.messages) + 2
       /\ last.ret = LastMessage(After)
       /\ last.ret.role = "interviewer"


\* a process_response call on a session at its questions that goes on to the
\* evaluation, the LLM answering every request and its evaluation reply being
\* text that cannot be parsed or validated
EvaluationUnparsed ==
  /\ Ran("respond") /\ ~last.llm_failed
  /\ last.pre.state \in {"QUESTIONING", "FOLLOW_UP"}
  /\ ~RespondedText.end_phrase
  /\ last.pre.questions_asked < last.pre.job_data.max_questions
  /\ last.target = "malformed"

\* C32: when the evaluation response from the LLM cannot be parsed or
\* validated, process_response appends exactly one fallback evaluation (all
\* three scores 0.5, confidence LOW) and the turn never results in ASK_FOLLOWUP:
\* it moves to the next question or ends the interview whatever the draw.
C32_UnparsedEvaluationFallsBack ==
  EvaluationUnparsed =>
    /\ Len(After.evaluations) = Len(last.pre.evaluations) + 1
    /\ After.evaluations[Len(After.evaluations)] =
         Evaluation(FallbackScore, FallbackScore, FallbackScore, "LOW",
                    "Fallback evaluation due to parsing error")
    /\ After.state # "FOLLOW_UP"
    /\ After.followups_for_current \in {0, last.pre.followups_for_current}
    /\ After.current_question.type # "followup"


-----------------------------------------------------------------------------
(* the follow-up rule of the Decision Engine *)

\* everything the follow-up rule asks for, read off the inputs of the latest
\* _decide_next_action call
FollowupEligible ==
  /\ last.pre.questions_asked < SpecMaxQuestions
  /\ last.pre.followups_for_current < SpecMaxFollowups
  /\ ~last.target.response.skip_phrase
  /\ last.target.response.length >= 30
  /\ last.target.evaluation.confidence_level # "LOW"
  /\ SpecWeighted >= 3000 /\ SpecWeighted < 8500
  /\ last.target.draw < 35

\* a 10-character response evaluated with confidence LOW and a weighted score
\* in the follow-up band
BriefAndUnclear ==
  /\ Ran("decide")
  /\ last.target.response.length = 10
  /\ last.target.evaluation.confidence_level = "LOW"
  /\ SpecWeighted >= 3000 /\ SpecWeighted < 8500

\* ASK_FOLLOWUP is returned only when the follow-up rule's conditions all hold,
\* and when one of them fails the engine returns one of the other two actions
FollowupOnlyWhenEligible ==
  Ran("decide") =>
    /\ (last.exc = NoExc /\ last.ret.action = "ASK_FOLLOWUP") => FollowupEligible
    /\ ~FollowupEligible =>
         /\ last.exc = NoExc
         /\ last.ret.action \in {"MOVE_TO_NEXT_QUESTION", "END_INTERVIEW"}

(* C33 as stated: ASK_FOLLOWUP is returned only when the conditions all     *)
(* hold, and a 10-character response with confidence LOW yields             *)
(* MOVE_TO_NEXT_QUESTION even with the weighted score in the follow-up band. *)
C33_BriefUnclearAlwaysMoves ==
  /\ FollowupOnlyWhenEligible
  /\ BriefAndUnclear =>
       /\ last.exc = NoExc
       /\ last.ret.action = "MOVE_TO_NEXT_QUESTION"

(* C33: ASK_FOLLOWUP is returned only when questions_asked < max_questions, *)
(* followups_for_current < max_followup_per_question, the response holds no *)
(* skip phrase and has at least 30 characters, confidence_level is not LOW, *)
(* 0.3 <= weighted_score < 0.85 and the draw is below 35; a 10-character    *)
(* response with confidence LOW and the score in the follow-up band yields  *)
(* END_INTERVIEW when the question limit is reached (rule 1) or the last    *)
(* topic is exhausted (rule 2), and MOVE_TO_NEXT_QUESTION otherwise.        *)
C33_BriefUnclearNeverFollowsUp ==
  /\ FollowupOnlyWhenEligible
  /\ BriefAndUnclear =>
       /\ last.exc = NoExc
       /\ last.ret.action =
            IF Rule1 \/ Rule2 THEN "END_INTERVIEW" ELSE "MOVE_TO_NEXT_QUESTION"

\* "don't know" with confidence LOW, a score of 0.5, a follow-up still allowed
\* and a draw below 35: the engine moves on because the response is too brief
C33_Witness ==
  /\ BriefAndUnclear
  /\ ~Rule1 /\ ~Rule2 /\ ~Rule3 /\ ~Rule4
  /\ last.target.draw < 35
  /\ last.ret = Decision("MOVE_TO_NEXT_QUESTION", "Response too brief to follow up on",
                         NoQuestion)


-----------------------------------------------------------------------------
(* JSON extraction *)

\* C34: for every response made of optional leading prose, one JSON object or
\* array (possibly nested, possibly an array of objects, possibly inside a
\* markdown code fence) and optional trailing prose, extract_json_from_response
\* returns that document, the outermost balanced object or array of the text.
C34_ExtractsOutermostDocument ==
  last.op = "extract_json_from_response" => last.ret.text = last.pre.document


-----------------------------------------------------------------------------
(* the turns of a started interview *)

\* a process_response call, the LLM answering, on a session as a successful
\* start_interview and the turns after it leave it: at its questions, with at
\* least one question asked
TurnOfStartedInterview ==
  /\ Ran("respond") /\ ~last.llm_failed
  /\ last.pre.state \in {"QUESTIONING", "FOLLOW_UP"}
  /\ last.pre.questions_asked >= 1

\* C35: after a successful start_interview every process_response call that
\* does not conclude the interview increases questions_asked by exactly 1, and
\* a call made with questions_asked at max_questions concludes it, so the
\* session reaches COMPLETED after at most max_questions process_response
\* calls whatever the candidate answers, evaluations and random draws.
C35_EachTurnAsksOneOrConcludes ==
  TurnOfStartedInterview =>
    /\ \/ After.state = "COMPLETED"
       \/ /\ After.state \in {"QUESTIONING", "FOLLOW_UP"}
          /\ After.questions_asked = last.pre.questions_asked + 1
    /\ last.pre.questions_asked >= last.pre.job_data.max_questions =>
         After.state = "COMPLETED"


-----------------------------------------------------------------------------
(* process_response and the states the respond route admits *)

\* C39: process_response fails with an invalid transition only when
\* is_active_state(session.state) is false: in every state the respond route
\* admits (GREETING, PREPLANNING, QUESTIONING, FOLLOW_UP, TRANSITIONING,
\* CONCLUDING) it completes, the LLM answering, without an illegal transition,
\* and whenever it does fail with an invalid transition it has appended no
\* message and no evaluation.
C39_InvalidTransitionOnlyWhenInactive ==
  Ran("respond") =>
    /\ is_active_state(last.pre.state) =>
         /\ last.exc.name # "StateMachineError"
         /\ ~last.llm_failed => last.exc = NoExc
    /\ last.exc.name = "StateMachineError" =>
         /\ After.messages = last.pre.messages
         /\ After.evaluations = last.pre.evaluations

====
